---- MODULE Spec2Model ----
(***************************************************************************)
(* A model of the reglet host library: the capability gatekeeper, the      *)
(* capability middleware with the SSRF-protected HTTP client, and the      *)
(* filesystem plugin repository.                                           *)
(*                                                                         *)
(* Strings are sequences of tokens: "example.com" is <<"example", ".",     *)
(* "com">>, "/**" is <<"/", "**">>, so that matching, cleaning and prefix   *)
(* tests are computed and not assumed.                                     *)
(***************************************************************************)
EXTENDS Integers, Sequences, FiniteSets, TLC

VARIABLES
    gkLevel,        \* Gatekeeper.securityLevel
    gkInteractive,  \* what prompter.IsInteractive() answers
    store,          \* the GrantSet held by the grant store
    gkPc,           \* "idle" | "done": position of the GrantCapabilities caller
    gkOut,          \* what the last GrantCapabilities call did and returned
    gkCalls,        \* number of GrantCapabilities calls made so far
    mwGrants,       \* CapabilityChecker.grantedCapabilities[plugin]
    mwPc,           \* "idle" | "next" | "done": position of a host call
    mwIn,           \* the host call: function, context, payload
    mwCtx,          \* the context CapabilityMiddleware hands to next
    mwOut,          \* what the host call did and returned
    repoRoot,       \* FSPluginRepository.root
    repoFs,         \* the plugin directories on disk: path -> files
    repoPc,         \* "idle" | "done": position of a repository caller
    repoOut,        \* what the last repository call did and returned
    repoCalls,      \* number of repository calls made so far
    repoLast,       \* per reference: the outcome of its last Store or Delete
    service,        \* the PluginService: its resolver chain and integrity options
    svcRepo,        \* the repository's digest for the plugin asked for, or none
    svcWasm,        \* the SHA-256 of the binary stored for it, or none
    svcRejected,    \* the plugin the call before failed to verify, or none
    svcPc,          \* "idle" | "done": position of a LoadPlugin caller
    svcIn,          \* the LoadPlugin call: the spec and what the ports do
    svcOut,         \* what the LoadPlugin call did and returned
    lockDisk,       \* the lockfile on disk
    lockPc,         \* "idle" | "done": position of a lockfile service caller
    lockIn,         \* the lockfile service call and what the file system does
    lockOut,        \* what the call did and returned
    lockPrev,       \* the call before it
    lockClock,      \* the instant time.Now returned last
    saveKind,       \* "lockfile" | "grants": the repository whose Save runs
    saveFile,       \* the file Save writes
    saveOld,        \* the file as it was when Save was called
    saveNew,        \* the data Save was called to write
    savePc,         \* position of Save, or "crashed"
    rcFiles,        \* plugin.wasm, metadata.json and digest.txt of one plugin
    rcWriter,       \* position of the goroutine in Store
    rcReader,       \* position of the goroutine in Find and what it has read
    gcStore,        \* the grants file two gatekeeper callers share
    gcLevel,        \* the security level of their gatekeeper
    gcProc,         \* per caller: position, required set, loaded grants, result
    sdAllow,        \* SecureDialer.AllowPrivateNetwork
    sdOnBlocked,    \* SecureDialer.OnBlocked # nil
    sdTTL,          \* SecureDialer.CacheTTL, in instants of sdClock
    sdActive,       \* the goroutines that dial through the dialer
    sdCache,        \* SecureDialer.cache: host -> pinnedEntry
    sdClock,        \* the instant time.Now returns to the dialer
    sdProc,         \* per goroutine: position in DialContext and what it did
    sdPrev,         \* per goroutine: the dial it returned from last
    htOut,          \* what the last PerformHTTPRequest call did
    htPrev,         \* what the call before it did
    htCalls,        \* number of PerformHTTPRequest calls made so far
    rtCfg,          \* RetryTransport: MaxRetries, InitialBackoff, MaxBackoff, OnRetry # nil
    rtSt,           \* one RoundTrip call: position, loop variables, what it did
    lrSrc,          \* the stream under a LimitedReader: its length and behaviour
    lrRd,           \* the LimitedReader: N, Limit, read, and what it took from the stream
    chGrants,       \* CapabilityChecker.grantedCapabilities[plugin] behind the chain
    chCall,         \* the host call through the middleware chain and what its layers do
    chOut,          \* what the chain returned to its caller
    chConfig,       \* the plugin configuration the grants were derived from, if any
    prRef,          \* a PluginReference value
    prOut,          \* its String() and what ParsePluginReference made of it
    lrOut           \* io.ReadAll over the reader and the HTTPResponse built from it

gkVars == <<gkLevel, gkInteractive, store, gkPc, gkOut, gkCalls>>

mwVars == <<mwGrants, mwPc, mwIn, mwCtx, mwOut>>

repoVars == <<repoRoot, repoFs, repoPc, repoOut, repoCalls, repoLast>>

svcVars == <<service, svcRepo, svcWasm, svcRejected, svcPc, svcIn, svcOut>>

\* the state of the subsystems modelled after the repository
lockVars == <<lockDisk, lockPc, lockIn, lockOut, lockPrev, lockClock>>

saveVars == <<saveKind, saveFile, saveOld, saveNew, savePc>>

rcVars == <<rcFiles, rcWriter, rcReader>>

gcVars == <<gcStore, gcLevel, gcProc>>

sdVars == <<sdAllow, sdOnBlocked, sdTTL, sdActive, sdCache, sdClock, sdProc, sdPrev>>

htVars == <<htOut, htPrev, htCalls>>

rtVars == <<rtCfg, rtSt>>

lrVars == <<lrSrc, lrRd, lrOut>>

chVars == <<chGrants, chCall, chOut, chConfig>>

prVars == <<prRef, prOut>>

netVars == <<sdVars, htVars, rtVars, lrVars, chVars, prVars>>

concVars == <<saveVars, rcVars, gcVars, netVars>>

laterVars == <<svcVars, lockVars, concVars>>

vars == <<gkLevel, gkInteractive, store, gkPc, gkOut, gkCalls,
          mwGrants, mwPc, mwIn, mwCtx, mwOut,
          repoRoot, repoFs, repoPc, repoOut, repoCalls, repoLast,
          service, svcRepo, svcWasm, svcRejected, svcPc, svcIn, svcOut,
          lockDisk, lockPc, lockIn, lockOut, lockPrev, lockClock,
          saveKind, saveFile, saveOld, saveNew, savePc,
          rcFiles, rcWriter, rcReader,
          gcStore, gcLevel, gcProc,
          sdAllow, sdOnBlocked, sdTTL, sdActive, sdCache, sdClock, sdProc, sdPrev,
          htOut, htPrev, htCalls,
          rtCfg, rtSt,
          lrSrc, lrRd, lrOut,
          chGrants, chCall, chOut, chConfig,
          prRef, prOut>>

(***************************************************************************)
(* Bounds                                                                  *)
(***************************************************************************)
\* declarations in one ResolvePlugins call
MaxDecls == 2

\* redirects the servers of one http_request answer with
MaxHops == 2
\* instants of the clock the lockfile service reads
MaxTime == 3
\* answers a prompter is asked for in one GrantCapabilities call
MaxPrompts == 3
\* GrantCapabilities calls in one behaviour
MaxCalls == 2
\* repository calls in one behaviour
MaxRepoCalls == 2
\* Find calls of the reader beside the writer
MaxFinds == 2
\* DialContext calls of one goroutine
MaxDials == 2
\* instants of the clock the dialer reads
MaxClock == 3
\* longest SecureDialer.CacheTTL, in instants of the clock
MaxTTL == 2
\* PerformHTTPRequest calls in one behaviour
MaxRequests == 3
\* largest RetryTransport.MaxRetries configured
MaxCfgRetries == 3
\* bits of a time.Duration, counted in seconds
DurBits == 6
\* largest limit of a LimitedReader, in bytes
MaxLimit == 2
\* longest stream read through a LimitedReader, in bytes
MaxStream == 3
\* longest buffer io.ReadAll hands to Read, in bytes
MaxBuf == 2

(***************************************************************************)
(* Sequence helpers                                                        *)
(***************************************************************************)
SeqRange(s) == { s[i] : i \in 1..Len(s) }

Suffix(s, k) == SubSeq(s, k + 1, Len(s))

RECURSIVE DedupSeq(_)
DedupSeq(s) ==
    IF s = <<>> THEN <<>>
    ELSE LET r == DedupSeq(SubSeq(s, 1, Len(s) - 1))
             x == s[Len(s)]
         IN  IF x \in SeqRange(r) THEN r ELSE Append(r, x)

(***************************************************************************)
(* Patterns                                                                *)
(***************************************************************************)
Star == <<"*">>
StarStar == <<"**">>
SlashStarStar == <<"/", "**">>

\* a port pattern: "*", a number n (lo = hi = n) or a range lo-hi
PortAny == [any |-> TRUE, lo |-> 0, hi |-> 65535]
PortNum(n) == [any |-> FALSE, lo |-> n, hi |-> n]
PortRange(a, b) == [any |-> FALSE, lo |-> a, hi |-> b]

\* plain glob: "*" is any run of non-separator tokens, "**" any run of tokens
RECURSIVE GlobMatch(_, _)
GlobMatch(p, s) ==
    IF p = <<>> THEN s = <<>>
    ELSE IF Head(p) = "**"
         THEN \E k \in 0..Len(s) : GlobMatch(Tail(p), Suffix(s, k))
    ELSE IF Head(p) = "*"
         THEN \E k \in 0..Len(s) :
                 /\ \A j \in 1..k : s[j] # "/"
                 /\ GlobMatch(Tail(p), Suffix(s, k))
    ELSE s # <<>> /\ Head(s) = Head(p) /\ GlobMatch(Tail(p), Tail(s))

\* host match: equal, "*", or "*.rest" against a host ending in ".rest"
HostMatch(p, h) ==
    \/ p = h
    \/ p = Star
    \/ /\ Len(p) >= 2 /\ p[1] = "*" /\ p[2] = "."
       /\ Len(h) > Len(p) - 1
       /\ Suffix(h, Len(h) - (Len(p) - 1)) = Tail(p)

PortMatch(pp, port) == pp.any \/ (pp.lo <= port /\ port <= pp.hi)

(***************************************************************************)
(* Grant sets (hostfunc.GrantSet) and the policy engine                    *)
(***************************************************************************)
EmptyGrants == [net |-> <<>>, fs |-> <<>>, env |-> <<>>, exec |-> <<>>]

NetRule(hs, ps) == [hosts |-> hs, ports |-> ps]
FSRule(r, w) == [read |-> r, write |-> w]

IsEmpty(g) ==
    /\ g.net = <<>>
    /\ g.env = <<>>
    /\ g.exec = <<>>
    /\ \A i \in 1..Len(g.fs) : g.fs[i].read = <<>> /\ g.fs[i].write = <<>>

Clone(g) == g

Merge(a, b) ==
    [net |-> a.net \o b.net, fs |-> a.fs \o b.fs,
     env |-> a.env \o b.env, exec |-> a.exec \o b.exec]

EvaluateNetwork(host, port, g) ==
    \E i \in 1..Len(g.net) :
        /\ \E j \in 1..Len(g.net[i].hosts) : HostMatch(g.net[i].hosts[j], host)
        /\ \E j \in 1..Len(g.net[i].ports) : PortMatch(g.net[i].ports[j], port)

EvaluateFileSystem(path, op, g) ==
    \E i \in 1..Len(g.fs) :
        LET pats == IF op = "read" THEN g.fs[i].read ELSE g.fs[i].write
        IN  \E j \in 1..Len(pats) : GlobMatch(pats[j], path)

EvaluateEnvironment(v, g) == \E i \in 1..Len(g.env) : GlobMatch(g.env[i], v)

EvaluateExec(c, g) == \E i \in 1..Len(g.exec) : GlobMatch(g.exec[i], c)

\* a stored port pattern covers a required one
PortCovers(sp, rp) == sp.any \/ (~rp.any /\ sp.lo <= rp.lo /\ rp.hi <= sp.hi)

NetRuleCovered(r, g) ==
    \A hi \in 1..Len(r.hosts) : \A pi \in 1..Len(r.ports) :
        \E i \in 1..Len(g.net) :
            /\ \E j \in 1..Len(g.net[i].hosts) : HostMatch(g.net[i].hosts[j], r.hosts[hi])
            /\ \E j \in 1..Len(g.net[i].ports) : PortCovers(g.net[i].ports[j], r.ports[pi])

\* Difference(required, granted): the rules of required that granted does not cover
Difference(req, g) ==
    LET NotRead(p) == ~EvaluateFileSystem(p, "read", g)
        NotWrite(p) == ~EvaluateFileSystem(p, "write", g)
        NotNet(r) == ~NetRuleCovered(r, g)
        NotEnv(v) == ~EvaluateEnvironment(v, g)
        NotExec(c) == ~EvaluateExec(c, g)
        Left(r) == [read |-> SelectSeq(r.read, NotRead), write |-> SelectSeq(r.write, NotWrite)]
        NonEmptyRule(r) == r.read # <<>> \/ r.write # <<>>
    IN  [net |-> SelectSeq(req.net, NotNet),
         fs |-> SelectSeq([i \in 1..Len(req.fs) |-> Left(req.fs[i])], NonEmptyRule),
         env |-> SelectSeq(req.env, NotEnv),
         exec |-> SelectSeq(req.exec, NotExec)]

\* rules with the same host list are merged by the union of their ports
RECURSIVE MergeNetRules(_)
MergeNetRules(rs) ==
    IF rs = <<>> THEN <<>>
    ELSE LET done == MergeNetRules(SubSeq(rs, 1, Len(rs) - 1))
             r == rs[Len(rs)]
         IN  IF \E i \in 1..Len(done) : done[i].hosts = r.hosts
             THEN [i \in 1..Len(done) |->
                     IF done[i].hosts = r.hosts
                     THEN NetRule(r.hosts, DedupSeq(done[i].ports \o r.ports))
                     ELSE done[i]]
             ELSE Append(done, NetRule(r.hosts, DedupSeq(r.ports)))

Deduplicate(g) ==
    [net |-> MergeNetRules(g.net), fs |-> DedupSeq(g.fs),
     env |-> DedupSeq(g.env), exec |-> DedupSeq(g.exec)]

(***************************************************************************)
(* Gatekeeper                                                              *)
(***************************************************************************)
SecurityStrict == "strict"
SecurityStandard == "standard"
SecurityPermissive == "permissive"
SecurityLevels == {SecurityStrict, SecurityStandard, SecurityPermissive}

\* what PromptForCapability can come back with
\*   once = (true, false, nil), always = (true, true, nil),
\*   deny = (false, false, nil), error = (false, false, err)
Answers == {"once", "always", "deny", "error"}

Request(k, hs, ps, p, broad) ==
    [kind |-> k, hosts |-> hs, ports |-> ps, pat |-> p, isBroad |-> broad]

NoRequest == Request("none", <<>>, <<>>, <<>>, FALSE)

IsBroadNetwork(rule) ==
    /\ Len(rule.hosts) = 1 /\ rule.hosts[1] = Star
    /\ Len(rule.ports) = 1 /\ rule.ports[1] = PortAny

IsBroadFS(path) == path = SlashStarStar \/ path = StarStar

IsBroadEnv(v) == v = Star

IsBroadExec(cmd) == cmd = StarStar \/ cmd = Star

NetworkRequests(missing) ==
    [i \in 1..Len(missing.net) |->
        Request("network", missing.net[i].hosts, missing.net[i].ports, <<>>,
                IsBroadNetwork(missing.net[i]))]

RECURSIVE FSRequests(_)
FSRequests(rules) ==
    IF rules = <<>> THEN <<>>
    ELSE LET r == Head(rules)
         IN  [i \in 1..Len(r.read) |->
                 Request("fsread", <<>>, <<>>, r.read[i], IsBroadFS(r.read[i]))]
             \o [i \in 1..Len(r.write) |->
                 Request("fswrite", <<>>, <<>>, r.write[i], IsBroadFS(r.write[i]))]
             \o FSRequests(Tail(rules))

EnvRequests(missing) ==
    [i \in 1..Len(missing.env) |->
        Request("env", <<>>, <<>>, missing.env[i], IsBroadEnv(missing.env[i]))]

ExecRequests(missing) ==
    [i \in 1..Len(missing.exec) |->
        Request("exec", <<>>, <<>>, missing.exec[i], IsBroadExec(missing.exec[i]))]

\* the one-rule grant set that a granted request merges into newGrants
\* a slip: a granted network rule is merged with every port
ToMerge_AnyPort(req) ==
    CASE req.kind = "network" -> [EmptyGrants EXCEPT !.net = <<NetRule(req.hosts, <<PortAny>>)>>]
      [] req.kind = "fsread"  -> [EmptyGrants EXCEPT !.fs = <<FSRule(<<req.pat>>, <<>>)>>]
      [] req.kind = "fswrite" -> [EmptyGrants EXCEPT !.fs = <<FSRule(<<>>, <<req.pat>>)>>]
      [] req.kind = "env"     -> [EmptyGrants EXCEPT !.env = <<req.pat>>]
      [] req.kind = "exec"    -> [EmptyGrants EXCEPT !.exec = <<req.pat>>]
      [] OTHER                -> EmptyGrants

ToMerge(req) ==
    CASE req.kind = "network" -> [EmptyGrants EXCEPT !.net = <<NetRule(req.hosts, req.ports)>>]
      [] req.kind = "fsread"  -> [EmptyGrants EXCEPT !.fs = <<FSRule(<<req.pat>>, <<>>)>>]
      [] req.kind = "fswrite" -> [EmptyGrants EXCEPT !.fs = <<FSRule(<<>>, <<req.pat>>)>>]
      [] req.kind = "env"     -> [EmptyGrants EXCEPT !.env = <<req.pat>>]
      [] req.kind = "exec"    -> [EmptyGrants EXCEPT !.exec = <<req.pat>>]
      [] OTHER                -> EmptyGrants

PromptForCapability(answer) ==
    [granted |-> answer \in {"once", "always"}, always |-> answer = "always",
     err |-> IF answer = "error" THEN "prompt_error" ELSE "", prompted |-> TRUE]

\* a slip: permissive mode auto-grants broad requests only
evaluateWithSecurityLevel_BroadOnly(req, level, answer) ==
    IF req.isBroad /\ level = SecurityStrict
    THEN [granted |-> FALSE, always |-> FALSE, err |-> "strict_denied", prompted |-> FALSE]
    ELSE IF req.isBroad /\ level = SecurityPermissive
    THEN [granted |-> TRUE, always |-> FALSE, err |-> "", prompted |-> FALSE]
    ELSE PromptForCapability(answer)

evaluateWithSecurityLevel(req, level, answer) ==
    IF req.isBroad /\ level = SecurityStrict
    THEN [granted |-> FALSE, always |-> FALSE, err |-> "strict_denied", prompted |-> FALSE]
    ELSE IF req.isBroad /\ level = SecurityPermissive
    THEN [granted |-> TRUE, always |-> FALSE, err |-> "", prompted |-> FALSE]
    ELSE IF level = SecurityPermissive
    THEN [granted |-> TRUE, always |-> FALSE, err |-> "", prompted |-> FALSE]
    ELSE PromptForCapability(answer)

\* st with the request recorded as evaluated (and as prompted, when it was)
Noted(st, req, ev, answer) ==
    [st EXCEPT !.evaluated = Append(@, req),
               !.prompts = IF ev.prompted
                           THEN Append(@, [req |-> req, answer |-> answer]) ELSE @,
               !.auto = IF ev.granted /\ ~ev.prompted THEN Append(@, req) ELSE @]

\* a slip: a denial does not end the loop
promptStep_NoAbort(st, req, level, answer) ==
    LET ev == evaluateWithSecurityLevel(req, level, answer)
        st1 == Noted(st, req, ev, answer)
    IN  IF ev.err # ""
        THEN [st1 EXCEPT !.err = ev.err, !.errReq = req]
        ELSE IF ev.granted
        THEN [st1 EXCEPT !.grants = Merge(@, ToMerge(req)),
                         !.shouldSave = @ \/ ev.always]
        ELSE st1

\* a slip: every grant, not only grant-always, asks for a save
promptStep_SaveOnGrant(st, req, level, answer) ==
    LET ev == evaluateWithSecurityLevel(req, level, answer)
        st1 == Noted(st, req, ev, answer)
    IN  IF ev.err # ""
        THEN [st1 EXCEPT !.err = ev.err, !.errReq = req]
        ELSE IF ev.granted
        THEN [st1 EXCEPT !.grants = Merge(@, ToMerge(req)),
                         !.shouldSave = TRUE]
        ELSE [st1 EXCEPT !.err = "denied_by_user", !.errReq = req]

\* the body of the loops of promptForNetwork, promptForFS, promptForEnv and
\* promptForExec for one request; st carries newGrants, shouldSave and the error
promptStep(st, req, level, answer) ==
    LET ev == evaluateWithSecurityLevel(req, level, answer)
        st1 == Noted(st, req, ev, answer)
    IN  IF ev.err # ""
        THEN [st1 EXCEPT !.err = ev.err, !.errReq = req]
        ELSE IF ev.granted
        THEN [st1 EXCEPT !.grants = Merge(@, ToMerge(req)),
                         !.shouldSave = @ \/ ev.always]
        ELSE [st1 EXCEPT !.err = "denied_by_user", !.errReq = req]

\* the k-th prompt of a call gets the k-th answer
AnswerAt(answers, k) == IF k \in DOMAIN answers THEN answers[k] ELSE "deny"

\* the loop over the requests of one class; an error returns at once
RECURSIVE promptLoop(_, _, _, _)
promptLoop(reqs, st, level, answers) ==
    IF reqs = <<>> \/ st.err # "" THEN st
    ELSE promptLoop(Tail(reqs),
                    promptStep(st, Head(reqs), level,
                               AnswerAt(answers, Len(st.prompts) + 1)),
                    level, answers)

AllRequests(missing) ==
    NetworkRequests(missing) \o FSRequests(missing.fs)
        \o EnvRequests(missing) \o ExecRequests(missing)

promptForCapabilities(missing, newGrants, level, answers) ==
    LET st0 == [grants |-> newGrants, shouldSave |-> FALSE, prompts |-> <<>>,
                evaluated |-> <<>>, auto |-> <<>>, err |-> "", errReq |-> NoRequest]
        afterNet == promptLoop(NetworkRequests(missing), st0, level, answers)
        afterFS == promptLoop(FSRequests(missing.fs), afterNet, level, answers)
        afterEnv == promptLoop(EnvRequests(missing), afterFS, level, answers)
    IN  promptLoop(ExecRequests(missing), afterEnv, level, answers)

\* FileStore.Save: what is written is the deduplicated clone
StoreSave(grants) == Deduplicate(Clone(grants))

\* a slip: the exec commands are left out of the message
FormatNonInteractiveError_NoExec(missing) ==
    [net |-> SelectSeq(missing.net, LAMBDA r : r.hosts # <<>> /\ r.ports # <<>>),
     fs |-> SelectSeq(missing.fs, LAMBDA r : r.read # <<>> \/ r.write # <<>>),
     env |-> missing.env,
     exec |-> <<>>]

\* the permissions the non-interactive error message lists
FormatNonInteractiveError(missing) ==
    [net |-> SelectSeq(missing.net, LAMBDA r : r.hosts # <<>> /\ r.ports # <<>>),
     fs |-> SelectSeq(missing.fs, LAMBDA r : r.read # <<>> \/ r.write # <<>>),
     env |-> missing.env,
     exec |-> missing.exec]

BlankOut ==
    [required |-> EmptyGrants, trustAll |-> FALSE, before |-> EmptyGrants,
     missing |-> EmptyGrants, hasRet |-> FALSE, ret |-> EmptyGrants,
     err |-> "", errReq |-> NoRequest, listed |-> EmptyGrants,
     prompts |-> <<>>, evaluated |-> <<>>, auto |-> <<>>,
     loads |-> 0, saves |-> 0, interactiveAsked |-> FALSE, newStore |-> EmptyGrants]

\* a slip: after the prompts the grants loaded from the store are returned
grantFromStore_ReturnsLoaded(required, trustAll, stored, loadFails, saveFails, level, interactive, answers) ==
    LET base == [BlankOut EXCEPT !.required = required, !.trustAll = trustAll,
                                 !.before = stored, !.newStore = stored, !.loads = 1]
        existingGrants == IF loadFails THEN EmptyGrants ELSE stored
        missing0 == Difference(required, existingGrants)
        missing == Deduplicate(missing0)
        st == promptForCapabilities(missing, Clone(existingGrants), level, answers)
    IN  IF IsEmpty(missing0)
        THEN [base EXCEPT !.hasRet = TRUE, !.ret = existingGrants]
        ELSE IF ~interactive
        THEN [base EXCEPT !.missing = missing, !.interactiveAsked = TRUE,
                          !.err = "non_interactive",
                          !.listed = FormatNonInteractiveError(missing)]
        ELSE IF st.err # ""
        THEN [base EXCEPT !.missing = missing, !.interactiveAsked = TRUE,
                          !.err = st.err, !.errReq = st.errReq,
                          !.prompts = st.prompts, !.evaluated = st.evaluated,
                          !.auto = st.auto]
        ELSE [base EXCEPT !.missing = missing, !.interactiveAsked = TRUE,
                          !.hasRet = TRUE, !.ret = existingGrants,
                          !.prompts = st.prompts, !.evaluated = st.evaluated,
                          !.auto = st.auto,
                          !.saves = IF st.shouldSave THEN 1 ELSE 0,
                          !.newStore = IF st.shouldSave /\ ~saveFails
                                       THEN StoreSave(st.grants) ELSE stored]

\* GrantCapabilities from the load of the stored grants on
grantFromStore(required, trustAll, stored, loadFails, saveFails, level, interactive, answers) ==
    LET base == [BlankOut EXCEPT !.required = required, !.trustAll = trustAll,
                                 !.before = stored, !.newStore = stored, !.loads = 1]
        existingGrants == IF loadFails THEN EmptyGrants ELSE stored
        missing0 == Difference(required, existingGrants)
        missing == Deduplicate(missing0)
        st == promptForCapabilities(missing, Clone(existingGrants), level, answers)
    IN  IF IsEmpty(missing0)
        THEN [base EXCEPT !.hasRet = TRUE, !.ret = existingGrants]
        ELSE IF ~interactive
        THEN [base EXCEPT !.missing = missing, !.interactiveAsked = TRUE,
                          !.err = "non_interactive",
                          !.listed = FormatNonInteractiveError(missing)]
        ELSE IF st.err # ""
        THEN [base EXCEPT !.missing = missing, !.interactiveAsked = TRUE,
                          !.err = st.err, !.errReq = st.errReq,
                          !.prompts = st.prompts, !.evaluated = st.evaluated,
                          !.auto = st.auto]
        ELSE [base EXCEPT !.missing = missing, !.interactiveAsked = TRUE,
                          !.hasRet = TRUE, !.ret = st.grants,
                          !.prompts = st.prompts, !.evaluated = st.evaluated,
                          !.auto = st.auto,
                          !.saves = IF st.shouldSave THEN 1 ELSE 0,
                          !.newStore = IF st.shouldSave /\ ~saveFails
                                       THEN StoreSave(st.grants) ELSE stored]

\* a slip: the trustAll flag is not looked at
GrantCapabilities_NoTrustAll(required, trustAll, stored, loadFails, saveFails, level, interactive, answers) ==
    IF IsEmpty(required)
    THEN [BlankOut EXCEPT !.required = required, !.trustAll = trustAll,
                          !.before = stored, !.newStore = stored, !.hasRet = TRUE]
    ELSE grantFromStore(required, trustAll, stored, loadFails, saveFails,
                        level, interactive, answers)

GrantCapabilities(required, trustAll, stored, loadFails, saveFails, level, interactive, answers) ==
    LET base == [BlankOut EXCEPT !.required = required, !.trustAll = trustAll,
                                 !.before = stored, !.newStore = stored]
    IN  IF IsEmpty(required)
        THEN [base EXCEPT !.hasRet = TRUE, !.ret = EmptyGrants]
        ELSE IF trustAll
        THEN [base EXCEPT !.hasRet = TRUE, !.ret = Clone(required)]
        ELSE grantFromStore(required, trustAll, stored, loadFails, saveFails,
                            level, interactive, answers)

(***************************************************************************)
(* Inputs of the gatekeeper model                                          *)
(***************************************************************************)
ExampleCom == <<"example", ".", "com">>
BinLs == <<"/", "bin", "/", "ls">>
EtcHosts == <<"/", "etc", "/", "hosts">>
TmpX == <<"/", "tmp", "/", "x">>

RequiredSets ==
    { EmptyGrants,
      [EmptyGrants EXCEPT !.net = <<NetRule(<<ExampleCom>>, <<PortNum(443)>>)>>],
      [EmptyGrants EXCEPT !.net = <<NetRule(<<Star>>, <<PortAny>>)>>],
      [EmptyGrants EXCEPT !.net = <<NetRule(<<ExampleCom>>, <<PortNum(443)>>)>>,
                          !.env = <<Star>>],
      [EmptyGrants EXCEPT !.env = <<StarStar>>],
      [EmptyGrants EXCEPT !.env = <<<<"HOME">>>>, !.exec = <<BinLs>>],
      [EmptyGrants EXCEPT !.fs = <<FSRule(<<SlashStarStar>>, <<TmpX>>)>>],
      [EmptyGrants EXCEPT !.exec = <<StarStar>>],
      [EmptyGrants EXCEPT !.net = <<NetRule(<<Star>>, <<PortAny>>),
                                    NetRule(<<Star>>, <<PortNum(80)>>)>>],
      [EmptyGrants EXCEPT !.env = <<<<"HOME">>, <<"HOME">>, <<"PATH">>>>],
      [EmptyGrants EXCEPT !.net = <<NetRule(<<ExampleCom>>, <<PortNum(443)>>)>>,
                          !.fs = <<FSRule(<<EtcHosts>>, <<>>)>>,
                          !.env = <<<<"HOME">>>>, !.exec = <<BinLs>>] }

\* what the grant store may hold when the gatekeeper is constructed
InitStores ==
    { EmptyGrants,
      [EmptyGrants EXCEPT !.net = <<NetRule(<<ExampleCom>>, <<PortNum(443)>>)>>],
      [EmptyGrants EXCEPT !.env = <<<<"HOME">>>>, !.exec = <<Star>>] }

NumRequests(required, stored, loadFails) ==
    Len(AllRequests(Deduplicate(Difference(required,
            IF loadFails THEN EmptyGrants ELSE stored))))

(***************************************************************************)
(* Capability middleware and the HTTP client                               *)
(***************************************************************************)
Contains(text, w) == w \in SeqRange(text)

\* first position of token w in text, Len(text) + 1 if there is none
IndexOf(text, w) ==
    IF Contains(text, w)
    THEN CHOOSE i \in 1..Len(text) :
            text[i] = w /\ \A j \in 1..(i - 1) : text[j] # w
    ELSE Len(text) + 1

\* IP addresses and their classes
IPLoopback == "127.0.0.1"
IPPrivate == "10.0.0.5"
IPLinkLocal == "169.254.169.254"
IPPublic == "93.184.216.34"
IPs == {IPLoopback, IPPrivate, IPLinkLocal, IPPublic}

IsInternalIP(ip) == ip \in {IPLoopback, IPPrivate, IPLinkLocal}

\* net.ParseIP(host) # nil
IsIPLiteral(host) == Len(host) = 1 /\ host[1] \in IPs

\* netfilter: private, loopback and link-local addresses are refused unless
\* the dialer allows the private network
ValidateAddress(ip, allowPrivate) == allowPrivate \/ ~IsInternalIP(ip)

\* strconv.Atoi with the error dropped: 0 for what is not a number
Atoi(s) ==
    CASE s = "53" -> 53
      [] s = "80" -> 80
      [] s = "443" -> 443
      [] s = "8080" -> 8080
      [] OTHER -> 0

\* url.Parse on a token text scheme "://" host [":" port] path...
URLParse(text) ==
    IF Contains(text, "%zz")
    THEN [err |-> TRUE, scheme |-> "", host |-> <<>>, port |-> ""]
    ELSE IF Len(text) < 2 \/ text[2] # "://"
    THEN [err |-> FALSE, scheme |-> "", host |-> <<>>, port |-> ""]
    ELSE LET rest == Suffix(text, 2)
             auth == SubSeq(rest, 1, IndexOf(rest, "/") - 1)
             colon == IndexOf(auth, ":")
         IN  [err |-> FALSE,
              scheme |-> text[1],
              host |-> SubSeq(auth, 1, colon - 1),
              port |-> IF colon < Len(auth) THEN auth[colon + 1] ELSE ""]

\* the port http connects to when the URL names none
DefaultPort(u) ==
    IF u.port # "" THEN u.port
    ELSE IF u.scheme = "https" THEN "443" ELSE "80"

\* CapabilityChecker.AllowsPrivateNetwork
AllowsPrivateNetwork(g) ==
    /\ g.present
    /\ EvaluateNetwork(<<IPLoopback>>, 0, g.grants)

\* CapabilityChecker.CheckNetwork / CheckNetworkConnection: TRUE if allowed
CheckNetwork(g, host, port) == g.present /\ EvaluateNetwork(host, port, g.grants)

CheckExec(g, cmd) == g.present /\ EvaluateExec(cmd, g.grants)

\* checkHTTPCapability: [checked, allowed] for the raw URL
checkHTTPCapability(g, rawURL) ==
    LET u == URLParse(rawURL)
    IN  IF u.err THEN [checked |-> FALSE, allowed |-> FALSE, host |-> <<>>, port |-> 0]
        ELSE [checked |-> TRUE,
              allowed |-> CheckNetwork(g, u.host, Atoi(DefaultPort(u))),
              host |-> u.host, port |-> Atoi(DefaultPort(u))]

NetworkFuncs == {"dns_lookup", "tcp_connect", "smtp_connect"}
CheckedFuncs == NetworkFuncs \cup {"http_request", "exec_command"}

BlankCtx == [hasName |-> FALSE, ssrfSet |-> FALSE, allowPrivate |-> FALSE]

\* what CapabilityMiddleware did with a call: check is the capability check it
\* made (none if it made none), denied is the validation-error return
NoCheck == [checked |-> FALSE, allowed |-> FALSE, host |-> <<>>, port |-> 0]

\* the check the switch on funcName makes for a payload that json.Unmarshal
\* accepted
capabilityCheck(g, in) ==
    IF in.fn = "dns_lookup"
    THEN [checked |-> TRUE, allowed |-> CheckNetwork(g, in.host, 53),
          host |-> in.host, port |-> 53]
    ELSE IF in.fn \in {"tcp_connect", "smtp_connect"}
    THEN [checked |-> TRUE, allowed |-> CheckNetwork(g, in.host, Atoi(in.port)),
          host |-> in.host, port |-> Atoi(in.port)]
    ELSE IF in.fn = "http_request"
    THEN checkHTTPCapability(g, in.url)
    ELSE IF in.fn = "exec_command"
    THEN [checked |-> TRUE, allowed |-> CheckExec(g, in.command),
          host |-> <<>>, port |-> 0]
    ELSE NoCheck

\* CapabilityMiddleware(checker)(next)(ctx, payload) up to its return or its
\* call of next
CapabilityMiddleware(g, in) ==
    IF ~in.hasName
    THEN [check |-> NoCheck, denied |-> FALSE, callNext |-> TRUE, ctx |-> BlankCtx]
    ELSE LET funcName == IF in.isHostContext THEN in.fn ELSE ""
             chk == IF in.parsed
                    THEN capabilityCheck(g, [in EXCEPT !.fn = funcName])
                    ELSE NoCheck
             deny == IF funcName = "http_request" /\ in.parsed
                     THEN ~chk.allowed
                     ELSE chk.checked /\ ~chk.allowed
         IN  [check |-> chk,
              denied |-> deny,
              callNext |-> ~deny,
              ctx |-> [hasName |-> TRUE, ssrfSet |-> TRUE,
                       allowPrivate |-> AllowsPrivateNetwork(g)]]

\* error texts, as token sequences
SSRFBlockedText(addr) == <<"SSRF protection blocked connection to", addr>>
RefusedText == <<"dial tcp", "connect:", "connection refused">>
TimeoutText == <<"i/o", "timeout">>
NoSuchHostText == <<"lookup", "no such host">>
NoHostText == <<"http: no Host in request URL">>

\* url.Error.Error(): the operation, the URL and the inner error
URLErrorText(op, urlText, inner) == <<op>> \o urlText \o inner

\* handleHTTPError: the code of the error response
handleHTTPError(errText, deadlineExceeded, isSSRF) ==
    IF Contains(errText, "timeout") \/ deadlineExceeded THEN "TIMEOUT"
    ELSE IF Contains(errText, "redirect") THEN "TOO_MANY_REDIRECTS"
    ELSE IF Contains(errText, "no such host") THEN "HOST_NOT_FOUND"
    ELSE IF Contains(errText, "connection refused") THEN "CONNECTION_REFUSED"
    ELSE IF isSSRF THEN "SSRF_BLOCKED"
    ELSE "REQUEST_FAILED"

\* what the network does to one request: the address DNS gives for a name
\* ("" if it gives none) and how the connection attempt ends
DialOutcomes == {"connected", "refused", "timeout"}
Networks == [dns : IPs \cup {""}, dial : DialOutcomes]

NoDial == [ssrfProtection |-> FALSE, allowPrivate |-> FALSE, ip |-> "",
           blocked |-> FALSE, connected |-> FALSE, code |-> ""]

\* SecureDialer.DialContext on a fresh dialer, and the plain dialer when
\* ssrfProtection is off: [ip, blocked, connected, inner error text]
DialContext(ssrfProtection, allowPrivate, host, net) ==
    LET ip == IF IsIPLiteral(host) THEN host[1] ELSE net.dns
    IN  IF ip = ""
        THEN [ip |-> "", blocked |-> FALSE, connected |-> FALSE,
              text |-> NoSuchHostText]
        ELSE IF ssrfProtection /\ ~ValidateAddress(ip, allowPrivate)
        THEN [ip |-> ip, blocked |-> TRUE, connected |-> FALSE,
              text |-> SSRFBlockedText(ip)]
        ELSE [ip |-> ip, blocked |-> FALSE, connected |-> net.dial = "connected",
              text |-> IF net.dial = "refused" THEN RefusedText
                       ELSE IF net.dial = "timeout" THEN TimeoutText
                       ELSE <<>>]

\* PerformHTTPRequest(ctx, req) with no options
PerformHTTPRequest(ctx, rawURL, net) ==
    LET ssrf == ctx.ssrfSet
        allow == ctx.ssrfSet /\ ctx.allowPrivate
        u == URLParse(rawURL)
    IN  IF rawURL = <<>> \/ u.err
        THEN [NoDial EXCEPT !.ssrfProtection = ssrf, !.allowPrivate = allow,
                            !.code = "INVALID_REQUEST"]
        ELSE IF u.host = <<>>
        THEN [NoDial EXCEPT !.ssrfProtection = ssrf, !.allowPrivate = allow,
                            !.code = handleHTTPError(
                                URLErrorText("Get", rawURL, NoHostText),
                                FALSE, FALSE)]
        ELSE LET d == DialContext(ssrf, allow, u.host, net)
             IN  [ssrfProtection |-> ssrf, allowPrivate |-> allow,
                  ip |-> d.ip, blocked |-> d.blocked, connected |-> d.connected,
                  code |-> IF d.connected THEN "OK"
                           ELSE handleHTTPError(
                                    URLErrorText("Get", rawURL, d.text),
                                    FALSE, d.blocked)]

(***************************************************************************)
(* Plugin references, paths and the filesystem repository                  *)
(***************************************************************************)
Sep == "/"

HasPrefix(str, pre) == Len(pre) <= Len(str) /\ SubSeq(str, 1, Len(pre)) = pre

\* PluginReference.IsEmbedded
IsEmbedded(ref) == ref.registry = <<>>

\* PluginReference.String
String(ref) ==
    IF IsEmbedded(ref) THEN ref.name
    ELSE ref.registry \o <<Sep>> \o ref.org \o <<Sep>> \o ref.repo \o <<Sep>>
            \o ref.name \o <<":">> \o ref.version

\* filepath.IsAbs
IsAbs(path) == path # <<>> /\ path[1] = Sep

\* the elements of a path between its separators
RECURSIVE SplitPath(_)
SplitPath(path) ==
    LET i == IndexOf(path, Sep)
    IN  IF i > Len(path) THEN <<path>>
        ELSE <<SubSeq(path, 1, i - 1)>> \o SplitPath(Suffix(path, i))

RECURSIVE JoinElems(_)
JoinElems(elems) ==
    IF elems = <<>> THEN <<>>
    ELSE IF Len(elems) = 1 THEN elems[1]
    ELSE elems[1] \o <<Sep>> \o JoinElems(Tail(elems))

\* filepath.Clean's pass over the elements: empty and "." elements go, ".."
\* removes the element before it, is dropped at the root and kept at the
\* start of a relative path
RECURSIVE CleanElems(_, _, _)
CleanElems(elems, kept, rooted) ==
    IF elems = <<>> THEN kept
    ELSE LET e == Head(elems)
             rest == Tail(elems)
         IN  IF e = <<>> \/ e = <<".">> THEN CleanElems(rest, kept, rooted)
             ELSE IF e = <<"..">>
             THEN IF kept # <<>> /\ kept[Len(kept)] # <<"..">>
                  THEN CleanElems(rest, SubSeq(kept, 1, Len(kept) - 1), rooted)
                  ELSE IF rooted THEN CleanElems(rest, kept, rooted)
                  ELSE CleanElems(rest, Append(kept, e), rooted)
             ELSE CleanElems(rest, Append(kept, e), rooted)

\* filepath.Clean
Clean(path) ==
    IF path = <<>> THEN <<".">>
    ELSE LET kept == CleanElems(SplitPath(path), <<>>, IsAbs(path))
         IN  IF IsAbs(path) THEN <<Sep>> \o JoinElems(kept)
             ELSE IF kept = <<>> THEN <<".">>
             ELSE JoinElems(kept)

\* filepath.Join of two elements: empty elements are ignored, the result is
\* cleaned
Join(a, b) ==
    IF a = <<>> /\ b = <<>> THEN <<>>
    ELSE IF b = <<>> THEN Clean(a)
    ELSE IF a = <<>> THEN Clean(b)
    ELSE Clean(a \o <<Sep>> \o b)

\* FSPluginRepository.pluginPath: err is "" and path the directory, or err
\* names the security violation
pluginPath(root, ref) ==
    LET refStr == String(ref)
        fullPath == Join(root, refStr)
        cleanRoot == Clean(root)
        cleanPath == Clean(fullPath)
    IN  IF IsAbs(refStr)
        THEN [err |-> "security violation: absolute path", path |-> <<>>]
        ELSE IF ~HasPrefix(cleanPath, cleanRoot \o <<Sep>>) /\ cleanPath # cleanRoot
        THEN [err |-> "security violation: path traversal", path |-> <<>>]
        ELSE [err |-> "", path |-> cleanPath]

IsSecurityViolation(err) ==
    err \in {"security violation: absolute path", "security violation: path traversal"}

\* the files of one plugin directory; "none" is a file that is not there
NoFiles == [wasm |-> "none", meta |-> "none", digest |-> "none"]

FilesAt(fs, path) == IF path \in DOMAIN fs THEN fs[path] ELSE NoFiles

WriteFiles(fs, path, files) ==
    [q \in DOMAIN fs \cup {path} |-> IF q = path THEN files ELSE fs[q]]

\* os.RemoveAll(path): the directory and everything below it
RemoveAll(fs, path) ==
    LET gone == { q \in DOMAIN fs : q = path \/ HasPrefix(q, path \o <<Sep>>)
                                      \/ path = <<Sep>> }
    IN  [q \in DOMAIN fs \ gone |-> fs[q]]

NoRef == [registry |-> <<>>, org |-> <<>>, repo |-> <<>>, name |-> <<>>,
          version |-> <<>>]
NoPlugin == [ref |-> NoRef, digest |-> "none", meta |-> "none", wasm |-> "none"]

BlankRepoOut == [op |-> "", plugin |-> NoPlugin, fault |-> "none", err |-> "",
                 path |-> <<>>, found |-> NoFiles, fsOps |-> 0, before |-> <<>>]

\* where a Store can fail after pluginPath
StoreFaults == {"none", "mkdir", "create", "copy", "metadata", "digest"}

\* FSPluginRepository.Store: [out, fs]
Store(root, fs, plugin, fault) ==
    LET pp == pluginPath(root, plugin.ref)
        out0 == [BlankRepoOut EXCEPT !.op = "store", !.plugin = plugin,
                                     !.fault = fault, !.before = fs]
        old == FilesAt(fs, pp.path)
        Fail(n) == [out0 EXCEPT !.err = "io error", !.fsOps = n]
    IN  IF pp.err # "" THEN [out |-> [out0 EXCEPT !.err = pp.err], fs |-> fs]
        ELSE IF fault = "mkdir" THEN [out |-> Fail(1), fs |-> fs]
        ELSE IF fault = "create" THEN [out |-> Fail(2), fs |-> WriteFiles(fs, pp.path, old)]
        ELSE IF fault = "copy"
        THEN [out |-> Fail(3),
              fs |-> WriteFiles(fs, pp.path, [old EXCEPT !.wasm = "partial"])]
        ELSE IF fault = "metadata"
        THEN [out |-> Fail(4),
              fs |-> WriteFiles(fs, pp.path, [old EXCEPT !.wasm = plugin.wasm])]
        ELSE IF fault = "digest"
        THEN [out |-> Fail(5),
              fs |-> WriteFiles(fs, pp.path,
                        [old EXCEPT !.wasm = plugin.wasm, !.meta = plugin.meta])]
        ELSE [out |-> [out0 EXCEPT !.path = Join(pp.path, <<"plugin.wasm">>),
                                   !.fsOps = 5],
              fs |-> WriteFiles(fs, pp.path,
                        [wasm |-> plugin.wasm, meta |-> plugin.meta,
                         digest |-> plugin.digest])]

\* FSPluginRepository.Find
Find(root, fs, ref) ==
    LET pp == pluginPath(root, ref)
        out0 == [BlankRepoOut EXCEPT !.op = "find", !.plugin.ref = ref,
                                     !.before = fs]
        files == FilesAt(fs, pp.path)
    IN  IF pp.err # "" THEN [out0 EXCEPT !.err = pp.err]
        ELSE IF files.wasm = "none"
        THEN [out0 EXCEPT !.err = "plugin not found", !.fsOps = 1]
        ELSE IF files.meta = "none"
        THEN [out0 EXCEPT !.err = "io error", !.fsOps = 2]
        ELSE IF files.digest = "none"
        THEN [out0 EXCEPT !.err = "io error", !.fsOps = 3]
        ELSE [out0 EXCEPT !.path = Join(pp.path, <<"plugin.wasm">>),
                          !.found = files, !.fsOps = 3]

\* FSPluginRepository.Delete: [out, fs]
Delete(root, fs, ref) ==
    LET pp == pluginPath(root, ref)
        out0 == [BlankRepoOut EXCEPT !.op = "delete", !.plugin.ref = ref,
                                     !.before = fs]
    IN  IF pp.err # "" THEN [out |-> [out0 EXCEPT !.err = pp.err], fs |-> fs]
        ELSE [out |-> [out0 EXCEPT !.path = pp.path, !.fsOps = 1],
              fs |-> RemoveAll(fs, pp.path)]

\* inputs of the repository model
Ref(reg, org, rp, name, ver) ==
    [registry |-> reg, org |-> org, repo |-> rp, name |-> name, version |-> ver]

Refs ==
    { Ref(<<"reg.io">>, <<"org">>, <<"repo">>, <<"file">>, <<"1.0.0">>),
      Ref(<<>>, <<>>, <<>>, <<"file">>, <<>>),
      Ref(<<>>, <<>>, <<>>, <<>>, <<>>),
      Ref(<<>>, <<>>, <<>>, <<"reg.io">>, <<>>),
      Ref(<<>>, <<>>, <<>>, <<"..", Sep, "x">>, <<>>),
      Ref(<<>>, <<>>, <<>>, <<"..", Sep, "..", Sep, "..", Sep, "etc", Sep, "passwd">>,
          <<"1.0.0">>),
      Ref(<<Sep, "etc">>, <<"passwd">>, <<"repo">>, <<"file">>, <<"1.0.0">>),
      Ref(<<"reg">>, <<"..">>, <<"..">>, <<"passwd">>, <<"1.0.0">>),
      Ref(<<"reg">>, <<"..">>, <<"file">>, <<"..">>, <<"1">>) }

Plugins ==
    { [ref |-> r, digest |-> d.digest, meta |-> d.meta, wasm |-> d.wasm] :
        r \in Refs,
        d \in { [digest |-> "sha256:d1", meta |-> "m1", wasm |-> "w1"],
                [digest |-> "sha256:d2", meta |-> "m2", wasm |-> "w2"] } }

\* roots a repository can be constructed with
RepoRoots ==
    { <<Sep, "r">>, <<Sep, "r", Sep>>, <<Sep, "r", Sep, "..", Sep, "r">>,
      <<"plugins">>, <<"..">> }

\* what is remembered of the last Store or Delete of a reference
NotStored == [stored |-> FALSE, digest |-> "none"]

\* no repository call in progress, on a repository just constructed
RepoIdle ==
    /\ repoFs = <<>>
    /\ repoPc = "idle"
    /\ repoOut = BlankRepoOut
    /\ repoCalls = 0
    /\ repoLast = [r \in Refs |-> NotStored]

\* inputs of the middleware model
HTTPExample == <<"http", "://", "example", ".", "com", "/">>
HTTPSExample == <<"https", "://", "example", ".", "com", "/">>
HTTPLoopback == <<"http", "://", "127.0.0.1", "/">>
HTTPLoopbackRedirect == <<"http", "://", "127.0.0.1", "/", "redirect">>
HTTPPrivateTimeout == <<"http", "://", "10.0.0.5", ":", "8080", "/", "timeout">>
HTTPMetadata == <<"http", "://", "169.254.169.254", "/">>
BadURL == <<"%zz">>
NoSchemeURL == <<"example", ".", "com">>
URLs == {HTTPExample, HTTPSExample, HTTPLoopback, HTTPLoopbackRedirect,
         HTTPPrivateTimeout, HTTPMetadata, BadURL, NoSchemeURL, <<>>}

BinSh == <<"/", "bin", "/", "sh">>

BlankIn == [fn |-> "", hasName |-> FALSE, isHostContext |-> FALSE,
            parsed |-> FALSE, host |-> <<>>, port |-> "", url |-> <<>>,
            command |-> <<>>]

\* the payloads of each host function
Payloads ==
    { [BlankIn EXCEPT !.fn = "dns_lookup", !.host = h] :
        h \in {ExampleCom, <<IPLoopback>>} }
    \cup { [BlankIn EXCEPT !.fn = f, !.host = h, !.port = pt] :
        f \in {"tcp_connect", "smtp_connect"},
        h \in {ExampleCom, <<IPLoopback>>}, pt \in {"80", "smtp"} }
    \cup { [BlankIn EXCEPT !.fn = "http_request", !.url = u] : u \in URLs }
    \cup { [BlankIn EXCEPT !.fn = "exec_command", !.command = c] :
        c \in {BinLs, BinSh} }
    \cup { [BlankIn EXCEPT !.fn = "log_message"] }

MwInputs ==
    { [pl EXCEPT !.hasName = n, !.isHostContext = hc, !.parsed = ok] :
        pl \in Payloads, n \in BOOLEAN, hc \in BOOLEAN, ok \in BOOLEAN }

\* what grantedCapabilities may hold for the calling plugin
MwGrantChoices ==
    { [present |-> FALSE, grants |-> EmptyGrants],
      [present |-> TRUE, grants |-> EmptyGrants],
      [present |-> TRUE,
       grants |-> [EmptyGrants EXCEPT !.net = <<NetRule(<<Star>>, <<PortAny>>)>>,
                                      !.exec = <<BinLs>>]],
      [present |-> TRUE,
       grants |-> [EmptyGrants EXCEPT
                     !.net = <<NetRule(<<ExampleCom>>, <<PortNum(80), PortNum(443)>>)>>]],
      [present |-> TRUE,
       grants |-> [EmptyGrants EXCEPT
                     !.net = <<NetRule(<<<<IPLoopback>>>>, <<PortNum(80)>>)>>]],
      [present |-> TRUE,
       grants |-> [EmptyGrants EXCEPT
                     !.net = <<NetRule(<<Star>>, <<PortRange(1, 65535)>>)>>,
                     !.exec = <<BinLs>>]] }

BlankMwOut == [check |-> NoCheck, denied |-> FALSE, nextInvoked |-> FALSE,
               io |-> FALSE, resp |-> "", http |-> NoDial,
               follow |-> TRUE, locations |-> <<>>, connects |-> <<>>]

\* a URL on a host other than the ones the grants of the model name
HTTPOther == <<"http", "://", "other", ".", "test", "/">>

\* where a server's 3xx response can point
RedirectTargets == {HTTPOther, HTTPSExample, HTTPLoopback}

\* the Location headers the servers of one request answer with, in order
LocationChains == UNION { [1..n -> RedirectTargets] : n \in 0..MaxHops }

\* httpConfig defaults of PerformHTTPRequest
DefaultHTTPMaxRedirects == 10

\* applyRequestConfig: the redirect fields of the request over the defaults
applyRequestConfig(reqMaxRedirects, reqFollowRedirects) ==
    [maxRedirects |-> IF reqMaxRedirects > 0 THEN reqMaxRedirects
                      ELSE DefaultHTTPMaxRedirects,
     followRedirects |-> reqFollowRedirects]

\* client.CheckRedirect as createHTTPClient sets it: TRUE if the client goes on
\* to the next location after via requests
CheckRedirect(cfg, via) ==
    IF ~cfg.followRedirects THEN FALSE
    ELSE IF cfg.maxRedirects > 0 THEN via < cfg.maxRedirects
    ELSE TRUE

\* client.Do: the hosts and ports the transport connects to for the request
\* and for the redirects the client follows
RECURSIVE clientDo(_, _, _, _, _, _)
clientDo(ctx, rawURL, locations, net, cfg, via) ==
    LET u == URLParse(rawURL)
        d == DialContext(ctx.ssrfSet, ctx.ssrfSet /\ ctx.allowPrivate, u.host, net)
    IN  IF rawURL = <<>> \/ u.err \/ u.host = <<>> \/ ~d.connected THEN <<>>
        ELSE <<[host |-> u.host, port |-> Atoi(DefaultPort(u))]>>
                \o (IF locations # <<>> /\ CheckRedirect(cfg, via + 1)
                    THEN clientDo(ctx, Head(locations), Tail(locations), net, cfg, via + 1)
                    ELSE <<>>)

\* no host call in progress
MwIdle ==
    /\ mwPc = "idle"
    /\ mwIn = BlankIn
    /\ mwCtx = BlankCtx
    /\ mwOut = BlankMwOut

\* no GrantCapabilities call in progress
GateIdle ==
    /\ gkPc = "idle"
    /\ gkOut = BlankOut
    /\ gkCalls = 0

(***************************************************************************)
(* Plugin service: references, digests, resolver chain, LoadPlugin         *)
(***************************************************************************)
\* strings.Split(text, sep) on token sequences
RECURSIVE SplitOn(_, _)
SplitOn(text, sep) ==
    LET i == IndexOf(text, sep)
    IN  IF i > Len(text) THEN <<text>>
        ELSE <<SubSeq(text, 1, i - 1)>> \o SplitOn(Suffix(text, i), sep)

\* values.ParsePluginReference
ParsePluginReference(text) ==
    IF ~Contains(text, Sep) /\ ~Contains(text, ":")
    THEN [err |-> "", ref |-> Ref(<<>>, <<>>, <<>>, text, <<>>)]
    ELSE LET parts == SplitOn(text, Sep)
         IN  IF Len(parts) < 4
             THEN [err |-> "invalid OCI reference", ref |-> NoRef]
             ELSE LET nameVersion == SplitOn(parts[Len(parts)], ":")
                  IN  IF Len(nameVersion) # 2
                      THEN [err |-> "missing version tag", ref |-> NoRef]
                      ELSE [err |-> "",
                            ref |-> Ref(parts[1], parts[2], parts[3],
                                        nameVersion[1], nameVersion[2])]

\* values.Digest{} : the zero value, which stands for "no digest"
NoDigest == [algorithm |-> <<>>, value |-> <<>>]

\* values.NewDigest
NewDigest(algorithm, hexValue) ==
    IF algorithm \in {<<"sha256">>, <<"sha512">>}
    THEN [err |-> "", digest |-> [algorithm |-> algorithm, value |-> hexValue]]
    ELSE [err |-> "unsupported digest algorithm", digest |-> NoDigest]

\* values.ParseDigest: strings.SplitN(s, ":", 2)
ParseDigest(s) ==
    LET i == IndexOf(s, ":")
    IN  IF i > Len(s)
        THEN [err |-> "invalid digest format", digest |-> NoDigest]
        ELSE NewDigest(SubSeq(s, 1, i - 1), Suffix(s, i))

\* Digest.String
DigestString(d) == d.algorithm \o <<":">> \o d.value

\* PluginSpecDTO.ToDigest
ToDigest(text) ==
    IF text = <<>> THEN [err |-> "", digest |-> NoDigest] ELSE ParseDigest(text)

\* errors: the chain of wrapped messages, outermost first, and the digests an
\* IntegrityError carries
NoErr == [chain |-> <<>>, expected |-> NoDigest, actual |-> NoDigest]
Err(msg) == [NoErr EXCEPT !.chain = <<msg>>]
Wrap(msg, e) == [e EXCEPT !.chain = <<msg>> \o @]
\* errors.As / errors.Is through the %w chain
ErrorsIs(e, msg) == Contains(e.chain, msg)

PluginNotFound == "plugin not found"
IntegrityCheckFailed == "integrity check failed"

\* entities.Plugin as the service sees it; NoEntity is a nil *Plugin
NoEntity == [ref |-> NoRef, digest |-> NoDigest]
NewPlugin(ref, digest) == [ref |-> ref, digest |-> digest]

\* Plugin.VerifyIntegrity (IntegrityService.VerifyDigest delegates to it)
VerifyIntegrity(plugin, expected) ==
    IF plugin.digest # expected
    THEN [Err(IntegrityCheckFailed) EXCEPT !.expected = expected,
                                           !.actual = plugin.digest]
    ELSE NoErr

\* built-in plugins of the Embedded resolver and the digest they carry
EmbeddedNames == {<<"file">>}
EmbeddedDigest == [algorithm |-> <<"sha256">>, value |-> <<"emb">>]

\* what a resolution returns: the plugin or the error, the resolvers that were
\* consulted in order, and the repository's content for the reference afterwards
Resolution(plugin, err, consulted, repo) == [plugin |-> plugin, err |-> err, consulted |-> consulted, repo |-> repo]

Consult(kind, r) == [r EXCEPT !.consulted = <<kind>> \o @]

RECURSIVE Resolve(_, _, _, _, _)
RECURSIVE ResolveNext(_, _, _, _, _)
RECURSIVE CachedResolve(_, _, _, _, _)
RECURSIVE RegistryResolve(_, _, _, _, _)
RECURSIVE EmbeddedResolve(_, _, _, _, _)

\* BaseResolver.ResolveNext of the resolver at position i of the chain
ResolveNext(chain, i, ref, repo, env) ==
    IF i = Len(chain)
    THEN Resolution(NoEntity, Err(PluginNotFound), <<>>, repo)
    ELSE Resolve(chain, i + 1, ref, repo, env)

\* CachedPluginResolver.Resolve: repository.Find, any error delegates
CachedResolve(chain, i, ref, repo, env) ==
    IF repo # NoDigest /\ env.fault # "find"
    THEN Resolution(NewPlugin(ref, repo), NoErr, <<"cached">>, repo)
    ELSE Consult("cached", ResolveNext(chain, i, ref, repo, env))

\* RegistryPluginResolver.Resolve: registry.Pull, then repository.Store
RegistryResolve(chain, i, ref, repo, env) ==
    IF env.pull = "notfound"
    THEN Resolution(NoEntity, Wrap("registry pull failed", Err(PluginNotFound)), <<"registry">>, repo)
    ELSE IF env.pull = "unavailable"
    THEN Resolution(NoEntity, Wrap("registry pull failed", Err("registry unavailable")), <<"registry">>, repo)
    ELSE IF env.fault = "store"
    THEN Resolution(NoEntity, Wrap("cache storage failed", Err("io error")), <<"registry">>, repo)
    ELSE Resolution(NewPlugin(ref, env.registryDigest), NoErr, <<"registry">>, env.registryDigest)

\* the Embedded resolver: a table of built-in plugins under bare names
EmbeddedResolve(chain, i, ref, repo, env) ==
    IF IsEmbedded(ref) /\ ref.name \in EmbeddedNames
    THEN Resolution(NewPlugin(ref, EmbeddedDigest), NoErr, <<"embedded">>, repo)
    ELSE Consult("embedded", ResolveNext(chain, i, ref, repo, env))

\* PluginResolutionStrategy.Resolve of the resolver at position i
Resolve(chain, i, ref, repo, env) ==
    CASE chain[i] = "cached" -> CachedResolve(chain, i, ref, repo, env)
      [] chain[i] = "registry" -> RegistryResolve(chain, i, ref, repo, env)
      [] chain[i] = "embedded" -> EmbeddedResolve(chain, i, ref, repo, env)

\* the path FSPluginRepository.Find returns for a stored plugin
WasmPath(ref) == String(ref) \o <<Sep, "plugin.wasm">>

BlankLoad ==
    [path |-> <<>>, err |-> NoErr, panicked |-> FALSE,
     ref |-> NoRef, expected |-> NoDigest,
     resolveCalled |-> FALSE, resolved |-> NoEntity, consulted |-> <<>>,
     digestChecked |-> FALSE, sigCalled |-> FALSE, sigVerified |-> FALSE,
     findCalled |-> FALSE, repo |-> NoDigest]

\* the signature step and the lookup of the binary, after the digest step
loadVerified(svc, env, out) ==
    LET sig == IF svc.requireSigning
               THEN [out EXCEPT !.sigCalled = TRUE, !.sigVerified = (env.verify = "verified")]
               ELSE out
    IN  IF svc.requireSigning /\ ~svc.hasVerifier
        THEN [out EXCEPT !.panicked = TRUE]
        ELSE IF svc.requireSigning /\ env.verify = "error"
        THEN [sig EXCEPT !.sigVerified = FALSE,
                         !.err = Wrap("signature verification failed", Err("sig fail"))]
        ELSE IF sig.repo = NoDigest \/ env.fault = "locate"
        THEN [sig EXCEPT !.findCalled = TRUE,
                         !.err = Wrap("failed to locate plugin binary",
                                      IF sig.repo = NoDigest THEN Err(PluginNotFound) ELSE Err("io error"))]
        ELSE [sig EXCEPT !.findCalled = TRUE, !.path = WasmPath(sig.ref)]

\* the digest step of LoadPlugin, after a successful resolution
loadResolved_NoDigestCheck(svc, env, out) ==
    loadVerified(svc, env, out)

loadResolved(svc, env, out) ==
    IF out.expected.value # <<>>
    THEN LET v == VerifyIntegrity(out.resolved, out.expected)
         IN  IF v # NoErr
             THEN [out EXCEPT !.digestChecked = TRUE,
                              !.err = Wrap("integrity verification failed", v)]
             ELSE loadVerified(svc, env, [out EXCEPT !.digestChecked = TRUE])
    ELSE loadVerified(svc, env, out)

\* PluginService.LoadPlugin
LoadPlugin(svc, spec, repo, env) ==
    LET p == ParsePluginReference(spec.name)
        d == ToDigest(spec.digest)
        base == [BlankLoad EXCEPT !.repo = repo]
    IN  IF p.err # ""
        THEN [base EXCEPT !.err = Wrap("invalid plugin reference", Err(p.err))]
        ELSE IF d.err # ""
        THEN [base EXCEPT !.err = Wrap("invalid digest", Err(d.err)), !.ref = p.ref]
        ELSE LET r == Resolve(svc.chain, 1, p.ref, repo, env)
                 out == [base EXCEPT !.ref = p.ref, !.expected = d.digest,
                                     !.resolveCalled = TRUE, !.resolved = r.plugin,
                                     !.consulted = r.consulted, !.repo = r.repo]
             IN  IF r.err # NoErr
                 THEN [out EXCEPT !.err = Wrap("plugin resolution failed", r.err)]
                 ELSE loadResolved(svc, env, out)

\* repository.Store in RegistryPluginResolver.Resolve copies artifact.WASM to
\* plugin.wasm: the binary on disk after a LoadPlugin whose resolution ended
\* at the registry with a plugin
storedWasm(out, wasm, env) ==
    IF out.resolved # NoEntity /\ out.consulted # <<>>
         /\ out.consulted[Len(out.consulted)] = "registry"
    THEN env.registryWasm
    ELSE wasm

\* LoadPlugin returned the error of its digest step or of its signature step
failedVerification(out) ==
    \/ ErrorsIs(out.err, "integrity verification failed")
    \/ ErrorsIs(out.err, "signature verification failed")

\* filepath.Rel(root, path) for a path that filepath.Walk(root) visits
Rel(root, path) ==
    LET cleanRoot == Clean(root)
    IN  IF path = cleanRoot THEN <<".">>
        ELSE IF cleanRoot = <<Sep>> THEN Tail(path)
        ELSE SubSeq(path, Len(cleanRoot) + 2, Len(path))

\* the directories under root in which filepath.Walk meets a plugin.wasm
walked(root, fs) ==
    { q \in DOMAIN fs :
        /\ fs[q].wasm # "none"
        /\ q = Clean(root) \/ HasPrefix(q, Clean(root) \o <<Sep>>) \/ Clean(root) = <<Sep>> }

\* FSPluginRepository.List: the references of the plugins it returns; an entry
\* whose path does not parse or whose Find fails is skipped
List(root, fs) ==
    { ParsePluginReference(Rel(root, q)).ref :
        q \in { d \in walked(root, fs) :
                  /\ ParsePluginReference(Rel(root, d)).err = ""
                  /\ Find(root, fs, ParsePluginReference(Rel(root, d)).ref).err = "" } }

\* inputs of the service model
Dabc == [algorithm |-> <<"sha256">>, value |-> <<"abc">>]
Dbad == [algorithm |-> <<"sha256">>, value |-> <<"bad">>]

SpecNames ==
    { <<"reg", Sep, "org", Sep, "repo", Sep, "name", ":", "1.0">>,
      <<"file">>,
      <<"reg", Sep, "name", ":", "1.0">>,
      <<"reg", Sep, "org", Sep, "repo", Sep, "name">> }

SpecDigests ==
    { <<>>,
      <<"sha256", ":", "abc">>,
      <<"sha256", ":", "bad">>,
      <<"sha512", ":", "abc">>,
      <<"sha256", ":">>,
      <<"md5", ":", "abc">>,
      <<"abc">> }

\* dto.PluginSpecDTO
SvcSpecs == [name : SpecNames, digest : SpecDigests]

Chains ==
    { <<"cached">>,
      <<"cached", "registry">>,
      <<"cached", "registry", "embedded">>,
      <<"cached", "embedded">> }

\* a PluginService as NewPluginService and its options build it
Services == [chain : Chains, requireSigning : BOOLEAN, hasVerifier : BOOLEAN]

\* what the ports do during one LoadPlugin call
SvcEnvs ==
    [fault : {"none", "find", "store", "locate"},
     pull : {"ok", "notfound", "unavailable"},
     registryDigest : {Dabc, Dbad},
     registryWasm : {Dabc, Dbad},
     verify : {"error", "verified", "unverified"}]

NoSvcIn ==
    [spec |-> [name |-> <<>>, digest |-> <<>>], repo |-> NoDigest,
     env |-> [fault |-> "none", pull |-> "ok", registryDigest |-> Dabc,
              registryWasm |-> Dabc, verify |-> "verified"]]

\* no LoadPlugin call in progress
SvcIdle ==
    /\ svcPc = "idle"
    /\ svcIn = NoSvcIn
    /\ svcOut = BlankLoad

(***************************************************************************)
(* Lockfile: entity, YAML form, file repository, lockfile service          *)
(***************************************************************************)
\* strings.LastIndex of a token, 0 if there is none
LastIndexOf(text, w) ==
    IF Contains(text, w)
    THEN CHOOSE i \in 1..Len(text) :
            text[i] = w /\ \A j \in (i + 1)..Len(text) : text[j] # w
    ELSE 0

\* strings.Index(declaration, "@sha256:"), 0 if there is none
DigestPinIndex(text) ==
    LET hits == {i \in 1..Len(text) : i + 2 <= Len(text) /\ text[i] = "@" /\ text[i + 1] = "sha256" /\ text[i + 2] = ":"}
    IN  IF hits = {} THEN 0 ELSE CHOOSE i \in hits : \A j \in hits : i <= j

\* ParsePluginDeclaration from the name on: the last path element of an OCI
\* reference with its tag stripped, or the simple name
parseName(declaration, version, source, digest) ==
    IF Contains(declaration, Sep)
    THEN LET parts == SplitOn(declaration, Sep)
             name == parts[Len(parts)]
             idx == LastIndexOf(name, ":")
         IN  [err |-> "",
              name |-> IF idx # 0 THEN SubSeq(name, 1, idx - 1) ELSE name,
              version |-> IF idx # 0 THEN Suffix(name, idx) ELSE version,
              source |-> source, digest |-> digest]
    ELSE [err |-> "", name |-> declaration, version |-> version,
          source |-> IF version # <<>> THEN declaration ELSE source,
          digest |-> digest]

\* ParsePluginDeclaration from the version suffix on; idx is the place of the
\* last "@"
parseVersion(declaration, idx, source, digest) ==
    parseName(IF idx # 0 THEN SubSeq(declaration, 1, idx - 1) ELSE declaration,
              IF idx # 0 THEN Suffix(declaration, idx) ELSE <<>>,
              source, digest)

\* ParsePluginDeclaration from the digest pin on; idx is the place of "@sha256:"
parseDigestPin(declaration, idx) ==
    IF idx # 0
    THEN parseVersion(SubSeq(declaration, 1, idx - 1),
                      LastIndexOf(SubSeq(declaration, 1, idx - 1), "@"),
                      SubSeq(declaration, 1, idx - 1) \o <<"@">> \o Suffix(declaration, idx),
                      Suffix(declaration, idx))
    ELSE parseVersion(declaration, LastIndexOf(declaration, "@"), declaration, <<>>)

\* entities.ParsePluginDeclaration
ParsePluginDeclaration(declaration) ==
    IF declaration = <<>>
    THEN [err |-> "empty plugin declaration", name |-> <<>>, version |-> <<>>, source |-> <<>>, digest |-> <<>>]
    ELSE parseDigestPin(declaration, DigestPinIndex(declaration))

\* the plugin declarations of the model
Declarations ==
    { <<"reglet", Sep, "test", "@", "1.0">>,
      <<"reglet", Sep, "test", "@", "2.0">>,
      <<"file">>,
      <<>> }

\* entities.PluginLock and entities.ProfileLock; times are instants of the
\* clock, 0 is the zero time
Lock(requested, resolved, source, digest, fetched) == [requested |-> requested, resolved |-> resolved, source |-> source, digest |-> digest, fetched |-> fetched, modified |-> 0]

\* a nil *PluginLock, *ProfileLock or *Lockfile
Nil == [nil |-> TRUE]

\* a nil or empty map
NoEntries == <<>>

Put(entries, key, value) == (key :> value) @@ entries

\* entities.NewLockfile
NewLockfile(now) == [generated |-> now, plugins |-> NoEntries, profiles |-> NoEntries, version |-> 1]

\* Lockfile.AddPlugin
AddPlugin(l, name, lock) ==
    IF lock.digest = ""
    THEN [err |-> "digest is required", lock |-> l]
    ELSE [err |-> "", lock |-> [l EXCEPT !.plugins = Put(@, name, lock)]]

\* Lockfile.AddProfile
AddProfile(l, url, lock) ==
    IF lock.digest = ""
    THEN [err |-> "digest is required", lock |-> l]
    ELSE [err |-> "", lock |-> [l EXCEPT !.profiles = Put(@, url, lock)]]

\* Lockfile.GetPlugin
GetPlugin(l, name) == IF name \in DOMAIN l.plugins THEN l.plugins[name] ELSE Nil

\* Lockfile.GetProfile
GetProfile(l, url) == IF url \in DOMAIN l.profiles THEN l.profiles[url] ELSE Nil

\* Lockfile.Validate
Validate(l) ==
    IF (DOMAIN l.plugins # {} \/ DOMAIN l.profiles # {}) /\ l.generated = 0
    THEN "generated timestamp is required"
    ELSE IF \E n \in DOMAIN l.plugins : l.plugins[n].digest = ""
    THEN "digest is required"
    ELSE IF \E u \in DOMAIN l.profiles : l.profiles[u].digest = ""
    THEN "digest is required"
    ELSE ""

\* filesystem.FromEntity: the YAML form has generated, plugins, lockfile_version
FromEntity(entity) == [generated |-> entity.generated, plugins |-> entity.plugins, version |-> entity.version]

\* filesystem.Lockfile.ToEntity
ToEntity(l) == [generated |-> l.generated, plugins |-> l.plugins, profiles |-> NoEntries, version |-> l.version]

\* the lockfile on disk: no file, a file cut short, or a YAML document
Absent == [file |-> "absent"]
Torn == [file |-> "torn"]

\* FileLockfileRepository.Load
LockLoad(disk, fault) ==
    IF fault = "load" THEN [err |-> "failed to open lockfile", lock |-> Nil]
    ELSE IF disk = Absent THEN [err |-> "", lock |-> Nil]
    ELSE IF disk = Torn THEN [err |-> "decoding lockfile YAML", lock |-> Nil]
    ELSE IF Validate(ToEntity(disk)) # ""
    THEN [err |-> "invalid lockfile", lock |-> Nil]
    ELSE [err |-> "", lock |-> ToEntity(disk)]

\* FileLockfileRepository.Save: the file is opened with O_TRUNC, then encoded
LockSave(disk, lockfile, fault) ==
    IF fault = "open" THEN [err |-> "creating lockfile", disk |-> disk]
    ELSE IF fault = "encode" THEN [err |-> "encoding lockfile", disk |-> Torn]
    ELSE [err |-> "", disk |-> FromEntity(lockfile)]

Placeholder == "sha256:placeholder"

\* "Already satisfied": the plugin is locked with the declaration's constraint
alreadySatisfied_Never(locked, constraint) == FALSE

alreadySatisfied(locked, constraint) == locked # Nil /\ locked.requested = constraint

\* the loop body of ResolvePlugins once the declaration is parsed and the
\* constraint defaulted
resolveConstraint(st, spec, constraint, now) ==
    IF alreadySatisfied(GetPlugin(st.lock, spec.name), constraint)
    THEN st
    ELSE LET added == AddPlugin(st.lock, spec.name, Lock(constraint, constraint, spec.source, Placeholder, now))
         IN  [err |-> added.err, lock |-> added.lock, updated |-> TRUE]

\* the loop body of ResolvePlugins once the declaration is parsed
resolveSpec(st, spec, now) ==
    IF spec.err # ""
    THEN [st EXCEPT !.err = "parsing plugin declaration"]
    ELSE resolveConstraint(st, spec, IF spec.version = <<>> THEN <<"latest">> ELSE spec.version, now)

\* the body of the loop of ResolvePlugins for one declaration; st carries the
\* lockfile, the updated flag and the error
resolveStep(st, pluginDecl, now) == resolveSpec(st, ParsePluginDeclaration(pluginDecl), now)

\* the loop of ResolvePlugins over the declarations; an error returns at once
RECURSIVE resolveLoop(_, _, _)
resolveLoop(st, decls, now) ==
    IF decls = <<>> \/ st.err # "" THEN st
    ELSE resolveLoop(resolveStep(st, Head(decls), now), Tail(decls), now)

\* what a lockfile service call did: `before` is the lockfile it worked from,
\* `lock` the lockfile or profile entry it returned
BlankLockOut == [op |-> "", err |-> "", before |-> Nil, lock |-> Nil, saved |-> FALSE, disk |-> Absent]

\* ResolvePlugins, step 3: save if updated; l2 is the lockfile with the new
\* generation time
saveIfUpdated(out, disk, lock0, r, l2, fault) ==
    IF r.err # "" THEN [out EXCEPT !.err = r.err, !.before = lock0]
    ELSE IF ~r.updated THEN [out EXCEPT !.before = lock0, !.lock = r.lock]
    ELSE LET sv == LockSave(disk, l2, fault)
         IN  IF sv.err # ""
             THEN [out EXCEPT !.err = "saving lockfile", !.before = lock0, !.saved = TRUE, !.disk = sv.disk]
             ELSE [out EXCEPT !.before = lock0, !.lock = l2, !.saved = TRUE, !.disk = sv.disk]

\* ResolvePlugins, step 2: resolve each declaration
resolveFrom(out, disk, lock0, r, now, fault) ==
    saveIfUpdated(out, disk, lock0, r, [r.lock EXCEPT !.generated = now], fault)

\* ResolvePlugins after the load; ld is what Load returned
resolveLoaded(out, disk, ld, lock0, decls, now, fault) ==
    IF ld.err # "" THEN [out EXCEPT !.err = "loading lockfile"]
    ELSE resolveFrom(out, disk, lock0, resolveLoop([err |-> "", lock |-> lock0, updated |-> FALSE], decls, now), now, fault)

\* a nil lockfile is replaced by a new one
orNewLockfile(lock, now) == IF lock = Nil THEN NewLockfile(now) ELSE lock

\* LockfileService.ResolvePlugins
ResolvePlugins(disk, decls, now, fault) ==
    LET ld == LockLoad(disk, fault)
    IN  resolveLoaded([BlankLockOut EXCEPT !.op = "resolve", !.disk = disk], disk, ld, orNewLockfile(ld.lock, now), decls, now, fault)

\* LockProfile once the profile lock is added; l2 is the lockfile to save
saveProfile(out, disk, lock0, added, l2, fault) ==
    IF added.err # "" THEN [out EXCEPT !.err = "adding profile lock", !.before = lock0]
    ELSE LET sv == LockSave(disk, l2, fault)
         IN  IF sv.err # ""
             THEN [out EXCEPT !.err = "saving lockfile", !.before = lock0, !.saved = TRUE, !.disk = sv.disk]
             ELSE [out EXCEPT !.before = lock0, !.lock = l2, !.saved = TRUE, !.disk = sv.disk]

\* LockProfile after the load
lockProfileLoaded(out, disk, ld, lock0, added, fault, now) ==
    IF ld.err # "" THEN [out EXCEPT !.err = "loading lockfile"]
    ELSE saveProfile(out, disk, lock0, added, [added.lock EXCEPT !.generated = now, !.version = 2], fault)

\* LockProfile with the lockfile it works on
lockProfileOn(out, disk, ld, lock0, profileURL, version, digest, now, fault) ==
    lockProfileLoaded(out, disk, ld, lock0, AddProfile(lock0, profileURL, Lock(profileURL, version, profileURL, digest, now)), fault, now)

\* LockfileService.LockProfile
LockProfile(disk, profileURL, version, digest, now, fault) ==
    LET ld == LockLoad(disk, fault)
    IN  lockProfileOn([BlankLockOut EXCEPT !.op = "lockprofile", !.disk = disk], disk, ld, orNewLockfile(ld.lock, now), profileURL, version, digest, now, fault)

\* LockfileService.GetLockedProfile
GetLockedProfile(disk, profileURL, fault) ==
    LET ld == LockLoad(disk, fault)
        out == [BlankLockOut EXCEPT !.op = "getprofile", !.disk = disk]
    IN  IF ld.err # "" THEN [out EXCEPT !.err = "loading lockfile"]
        ELSE IF ld.lock = Nil THEN out
        ELSE [out EXCEPT !.before = ld.lock, !.lock = GetProfile(ld.lock, profileURL)]

\* inputs of the lockfile model
\* the lists of at most MaxDecls declarations
DeclLists == UNION { [1..n -> Declarations] : n \in 0..MaxDecls }

ProfileURL == "https://example.com/profile.yaml"

LockFaults == {"none", "load", "open", "encode"}

\* the lockfiles a run can find on disk
OldLock == [requested |-> <<"1.0">>, resolved |-> <<"1.0.0">>, source |-> <<>>, digest |-> "sha256:old", fetched |-> 0, modified |-> 0]
InitDisks ==
    { Absent,
      [generated |-> 1, plugins |-> Put(NoEntries, <<"test">>, OldLock), version |-> 1] }

NoLockIn == [op |-> "", decls |-> <<>>, url |-> "", version |-> "", digest |-> "", fault |-> "none"]

\* no lockfile service call in progress
LockIdle ==
    /\ lockPc = "idle"
    /\ lockIn = NoLockIn
    /\ lockOut = BlankLockOut
    /\ lockPrev = [in |-> NoLockIn, out |-> BlankLockOut]
    /\ lockClock = 1

(***************************************************************************)
(* Saving the lockfile and the grant store, one file system step at a time *)
(***************************************************************************)
\* a file: absent, just truncated, holding a prefix of the data, or all of it
FileAbsent == [state |-> "absent", data |-> Nil]
FileEmpty == [state |-> "empty", data |-> Nil]
FilePartial(data) == [state |-> "partial", data |-> data]
FileFull(data) == [state |-> "full", data |-> data]

\* what Save writes: the YAML form of the lockfile, or the deduplicated clone
\* of the grants
SaveData(kind, payload) == IF kind = "lockfile" THEN FromEntity(payload) ELSE StoreSave(payload)

\* os.OpenFile with O_WRONLY|O_CREATE|O_TRUNC, as Save and os.WriteFile call it
OpenTrunc(file) == FileEmpty

\* the lockfiles and grant sets handed to Save
SavePayloads(kind) ==
    IF kind = "lockfile"
    THEN { NewLockfile(1),
           AddPlugin(NewLockfile(1), <<"test">>, OldLock).lock,
           AddPlugin(NewLockfile(2), <<"file">>, Lock(<<"latest">>, <<"latest">>, <<"file">>, Placeholder, 2)).lock }
    ELSE RequiredSets

\* the files a Save can find
SaveInitFiles(kind) ==
    IF kind = "lockfile"
    THEN {FileAbsent} \cup {FileFull(d) : d \in {x \in InitDisks : x # Absent}}
    ELSE {FileAbsent} \cup {FileFull(StoreSave(s)) : s \in InitStores}

\* no Save in progress
SaveIdle ==
    /\ savePc = "idle"
    /\ saveOld = saveFile
    /\ saveNew = Nil

SaveAtRest ==
    /\ saveKind = "grants"
    /\ saveFile = FileAbsent
    /\ SaveIdle

(***************************************************************************)
(* Plugin repository with a concurrent reader and writer                   *)
(***************************************************************************)
\* the three files of the plugin directory; each holds nothing or the data
\* of one plugin stored under the reference, whole or in part
RcPlugins == {"v1", "v2"}
RcFile(state, of) == [state |-> state, of |-> of]
RcStored(v) == [wasm |-> RcFile("full", v), meta |-> RcFile("full", v), digest |-> RcFile("full", v)]
RcNone == [wasm |-> RcFile("absent", "none"), meta |-> RcFile("absent", "none"), digest |-> RcFile("absent", "none")]

\* os.Create and os.WriteFile truncate the file before anything is written
RcTruncate(f) == RcFile("empty", "none")

\* the goroutine in Store: where it is and the plugin it stores
RcBlankWrite == [pc |-> "idle", plugin |-> "none"]

\* the goroutine in Find: where it is, what it has read so far and the calls
\* it has made
RcBlankRead == [pc |-> "idle", meta |-> "none", digest |-> "none", wasm |-> RcFile("absent", "none"), err |-> "", calls |-> 0]

\* json.Decode of metadata.json and ParseDigest of digest.txt fail on a file
\* that is empty or cut short
RcReadable(f) == f.state = "full"

RcIdle ==
    /\ rcWriter = RcBlankWrite
    /\ rcReader = RcBlankRead

RcAtRest ==
    /\ rcFiles = RcNone
    /\ RcIdle

(***************************************************************************)
(* Gatekeeper: two concurrent GrantCapabilities calls on one grant store   *)
(***************************************************************************)
Procs == {1, 2}

GcBlankProc == [pc |-> "idle", required |-> EmptyGrants, loaded |-> EmptyGrants, out |-> BlankOut]

\* the user approves every prompt with "always"
AlwaysAnswers(n) == [k \in 1..n |-> "always"]

GcIdle == gcProc = [p \in Procs |-> GcBlankProc]

GcAtRest ==
    /\ gcStore = EmptyGrants
    /\ gcLevel = SecurityStandard
    /\ GcIdle

(***************************************************************************)
(* SecureDialer: DialContext step by step on one shared dialer             *)
(***************************************************************************)
SdProcs == {1, 2}

\* the addresses dialed: a name or an IP literal, with or without a port
SdHosts == {<<"example.com">>, <<IPLoopback>>, <<IPPublic>>}
SdAddrs == [host : SdHosts, port : {"80", ""}]

\* net.JoinHostPort
JoinHostPort(host, port) == host \o <<":", port>>

\* the reason netfilter.ValidateAddress gives for refusing an address
BlockReason(ip) ==
    CASE ip = IPLoopback -> "loopback address"
      [] ip = IPPrivate -> "private address"
      [] ip = IPLinkLocal -> "link-local address"
      [] OTHER -> ""

\* pinnedEntry, and the cache with no entry for a host
NoEntry == [present |-> FALSE, ip |-> "", timestamp |-> 0]
pinnedEntry(ip, now) == [present |-> TRUE, ip |-> ip, timestamp |-> now]
SdEmptyCache == [h \in SdHosts |-> NoEntry]

\* SecureDialer.getCached: the entry of the host if it has one younger than
\* the TTL, NoEntry otherwise
getCached(cache, host, now, ttl) ==
    IF ~cache[host].present THEN NoEntry
    ELSE IF now - cache[host].timestamp >= ttl THEN NoEntry
    ELSE cache[host]

\* SecureDialer.cacheIP
cacheIP(cache, host, ip, now) == [cache EXCEPT ![host] = pinnedEntry(ip, now)]

\* the OnBlocked call of one dial: none, or the arguments of the call
NoCall == [called |-> FALSE, addr |-> <<>>, reason |-> ""]
OnBlockedCall(set, addr, reason) == [called |-> set, addr |-> IF set THEN addr ELSE <<>>, reason |-> IF set THEN reason ELSE ""]

\* SecureDialer.validateWithNetfilter: [allowed, address and reason of the
\* SSRFBlockedError, the OnBlocked call]
validateWithNetfilter(host, port, allowPrivate, onBlockedSet) ==
    IF ValidateAddress(host[1], allowPrivate)
    THEN [allowed |-> TRUE, address |-> <<>>, onBlocked |-> NoCall]
    ELSE [allowed |-> FALSE, address |-> JoinHostPort(host, port),
          onBlocked |-> OnBlockedCall(onBlockedSet, JoinHostPort(host, port), BlockReason(host[1]))]

\* SecureDialer.validateResolvedIP
validateResolvedIP(ip, allowPrivate, onBlockedSet) ==
    IF ValidateAddress(ip, allowPrivate)
    THEN [allowed |-> TRUE, address |-> <<>>, onBlocked |-> NoCall]
    ELSE [allowed |-> FALSE, address |-> <<ip>>,
          onBlocked |-> OnBlockedCall(onBlockedSet, <<ip>>, BlockReason(ip))]

\* one goroutine in DialContext: where it is, the address it dials, the IP
\* it selected, the IP it had validated, its DNS lookups, whether it pinned,
\* the timestamp of the pin it used, the IP it opened a connection to, the
\* OnBlocked call it made and the error it returns
SdBlankProc == [pc |-> "idle", host |-> <<>>, port |-> "", ip |-> "", checked |-> "", start |-> 0, lookups |-> 0, pinned |-> FALSE, pinTime |-> 0, opened |-> "", connected |-> FALSE, onBlocked |-> NoCall, err |-> "", errAddr |-> <<>>, dials |-> 0]

\* the dial a goroutine returned from last
SdNoPrev == [done |-> FALSE, host |-> <<>>, connected |-> FALSE, ip |-> "", pinTime |-> 0]

SdIdle ==
    /\ sdProc = [p \in SdProcs |-> SdBlankProc]
    /\ sdPrev = [p \in SdProcs |-> SdNoPrev]

SdAtRest ==
    /\ sdAllow = FALSE
    /\ sdOnBlocked = FALSE
    /\ sdTTL = 1
    /\ sdActive = {1}
    /\ sdCache = SdEmptyCache
    /\ sdClock = 0
    /\ SdIdle

(***************************************************************************)
(* PerformHTTPRequest: successive requests                                 *)
(***************************************************************************)
\* the pin cache of a SecureDialer that has not dialed yet: a nil map
NilCache == [h \in {} |-> NoEntry]

\* createHTTPClient: a new transport and, with SSRF protection, a new
\* SecureDialer for it
createHTTPClient(ssrfProtection, allowPrivate) ==
    [ssrfProtection |-> ssrfProtection,
     dialer |-> [AllowPrivateNetwork |-> allowPrivate, cache |-> NilCache]]

\* the DNS lookups one dial of the host makes through the client
clientLookups(client, host) ==
    IF IsIPLiteral(host) THEN 0
    ELSE IF client.ssrfProtection /\ host \in DOMAIN client.dialer.cache THEN 0
    ELSE 1

\* executeHTTPRequest: the client is created for the request, the request
\* is performed with it
executeHTTPRequest(ctx, rawURL, net, client, h) ==
    [url |-> rawURL, host |-> URLParse(rawURL).host, ip |-> h.ip,
     connected |-> h.connected, blocked |-> h.blocked, code |-> h.code,
     lookups |-> IF h.ip = "" /\ h.code # "HOST_NOT_FOUND" THEN 0 ELSE clientLookups(client, URLParse(rawURL).host)]

HtBlank == [url |-> <<>>, host |-> <<>>, ip |-> "", connected |-> FALSE, blocked |-> FALSE, code |-> "", lookups |-> 0]

\* the context and options of a request with SSRF protection enabled
HtCtx(allowPrivate) == [hasName |-> TRUE, ssrfSet |-> TRUE, allowPrivate |-> allowPrivate]

HtAtRest ==
    /\ htOut = HtBlank
    /\ htPrev = HtBlank
    /\ htCalls = 0

(***************************************************************************)
(* RetryTransport                                                          *)
(***************************************************************************)
\* a signed integer of DurBits bits: what int64 arithmetic leaves of x
WrapDur(x) == ((x + 2^(DurBits - 1)) % 2^DurBits) - 2^(DurBits - 1)

\* time.Second, in the unit durations are counted in
Second == 1

\* the defaults RoundTrip puts in place of zero fields
DefaultMaxRetries == 3
DefaultInitialBackoff == Second
DefaultMaxBackoff == 30 * Second

maxRetriesOf_Five(cfg) == IF cfg.MaxRetries = 0 THEN 5 ELSE cfg.MaxRetries
maxRetriesOf(cfg) == IF cfg.MaxRetries = 0 THEN DefaultMaxRetries ELSE cfg.MaxRetries
initialBackoffOf(cfg) == IF cfg.InitialBackoff = 0 THEN DefaultInitialBackoff ELSE cfg.InitialBackoff
maxBackoffOf(cfg) == IF cfg.MaxBackoff = 0 THEN DefaultMaxBackoff ELSE cfg.MaxBackoff

\* the Retry-After header of a response: absent, integer seconds, or an
\* HTTP-date that lies value seconds from now
NoRetryAfter == [kind |-> "none", value |-> 0]
RetryAfters == {NoRetryAfter} \cup [kind : {"seconds", "date"}, value : {-1, 2, 2^(DurBits - 1) - 1}]

\* isRetryableStatus
isRetryableStatus(statusCode) == statusCode \in {429, 502, 503, 504}

\* what one base.RoundTrip call, or req.GetBody before it, yields
NoOutcome == [kind |-> "none", status |-> 0, ssrf |-> FALSE, retryAfter |-> NoRetryAfter]
Response(status, ra) == [kind |-> "resp", status |-> status, ssrf |-> FALSE, retryAfter |-> ra]
TransportError(ssrf) == [kind |-> "err", status |-> 0, ssrf |-> ssrf, retryAfter |-> NoRetryAfter]
GetBodyError == [kind |-> "getbody", status |-> 0, ssrf |-> FALSE, retryAfter |-> NoRetryAfter]
Statuses == {200, 400, 404, 429, 500, 502, 503, 504}
Outcomes ==
    {Response(st, NoRetryAfter) : st \in Statuses}
    \cup {Response(st, ra) : st \in {429, 503}, ra \in RetryAfters}
    \cup {TransportError(b) : b \in BOOLEAN}
    \cup {GetBodyError}

\* 1 << attempt
Shl(attempt) == IF attempt >= DurBits THEN 0 ELSE WrapDur(2^attempt)

\* the cap on a duration
capAt(duration, maxDuration) == IF duration > maxDuration THEN maxDuration ELSE duration

\* RetryTransport.calculateBackoff; resp is NoOutcome for nil
calculateBackoff(attempt, initial, maxDuration, resp) ==
    IF resp.retryAfter.kind = "seconds"
    THEN capAt(WrapDur(resp.retryAfter.value * Second), maxDuration)
    ELSE IF resp.retryAfter.kind = "date"
    THEN IF resp.retryAfter.value < 0 THEN initial ELSE capAt(resp.retryAfter.value, maxDuration)
    ELSE capAt(WrapDur(initial * Shl(attempt)), maxDuration)

\* one RoundTrip call: the loop variable, the calls made on the base
\* transport, its last outcome and whether all before it were retryable,
\* lastResp and lastErr, the attempt numbers OnRetry was called with, the
\* last wait with the attempt and response it was computed for, and what
\* the call returned
RtBlank == [pc |-> "idle", attempt |-> 0, calls |-> 0, last |-> NoOutcome, retried |-> 0, lastResp |-> NoOutcome, lastErr |-> NoOutcome, onRetry |-> <<>>, slept |-> FALSE, wait |-> 0, waitFor |-> NoOutcome, result |-> NoOutcome]

RtConfigs == [MaxRetries : (-2)..MaxCfgRetries, InitialBackoff : {0, 1, 8}, MaxBackoff : {0, 4}, OnRetry : BOOLEAN]

RtAtRest ==
    /\ rtCfg = [MaxRetries |-> 0, InitialBackoff |-> 0, MaxBackoff |-> 0, OnRetry |-> FALSE]
    /\ rtSt = RtBlank

(***************************************************************************)
(* LimitedReader and readHTTPResponse                                      *)
(***************************************************************************)
\* the smaller of two numbers
Min(a, b) == IF a < b THEN a ELSE b

\* the results one Read of at most want bytes on the stream can have, with
\* remaining bytes left in it: some bytes, with io.EOF beside the last of
\* them if the stream reports its end that way; io.EOF alone at the end; a
\* failure if the stream is flaky
SrcReads(src, remaining, want) ==
    IF remaining = 0 \/ want <= 0
    THEN {[n |-> 0, err |-> IF remaining = 0 THEN "EOF" ELSE ""]}
    ELSE {[n |-> k, err |-> IF k = remaining /\ src.eofWithData THEN "EOF" ELSE ""] : k \in 1..Min(want, remaining)}
         \cup (IF src.flaky THEN {[n |-> 0, err |-> "unexpected EOF"]} ELSE {})

\* NewLimitedReader
NewLimitedReader(limit) == [N |-> limit, Limit |-> limit, read |-> 0, taken |-> 0, srcReads |-> 0]

SizeLimitExceeded == "size limit exceeded"

\* LimitedReader.Read after the read of the stream left N at zero with no
\* error: one more byte is asked for; r2 is what the stream answers
readAtLimit(rd, n, r2) ==
    IF r2.n > 0
    THEN [rd |-> [rd EXCEPT !.taken = rd.taken + r2.n, !.srcReads = rd.srcReads + 1], n |-> n, err |-> SizeLimitExceeded]
    ELSE IF r2.err # "" /\ r2.err # "EOF"
    THEN [rd |-> [rd EXCEPT !.srcReads = rd.srcReads + 1], n |-> n, err |-> r2.err]
    ELSE [rd |-> [rd EXCEPT !.srcReads = rd.srcReads + 1], n |-> n, err |-> ""]

\* LimitedReader.Read after the stream answered r1
readFromStream(rd, r1, r2) ==
    IF rd.N = 0 /\ r1.err = ""
    THEN readAtLimit(rd, r1.n, r2)
    ELSE [rd |-> rd, n |-> r1.n, err |-> r1.err]

\* LimitedReader.Read: r1 is what the stream answers to the read, r2 what
\* it answers to the read of one more byte
Read(rd, r1, r2) ==
    IF rd.N <= 0
    THEN [rd |-> rd, n |-> 0, err |-> SizeLimitExceeded]
    ELSE readFromStream([rd EXCEPT !.N = rd.N - r1.n, !.read = rd.read + r1.n, !.taken = rd.taken + r1.n, !.srcReads = rd.srcReads + 1], r1, r2)

\* IsSizeLimitExceededError
IsSizeLimitExceededError(err) == err = SizeLimitExceeded

\* HTTPResponse, the body by its length
NoResponse == [StatusCode |-> 0, Body |-> 0, BodyTruncated |-> FALSE, Error |-> ""]

\* readHTTPResponse after io.ReadAll returned body and err
readHTTPResponse(statusCode, body, err) ==
    IF err # "" /\ IsSizeLimitExceededError(err)
    THEN [StatusCode |-> statusCode, Body |-> body, BodyTruncated |-> TRUE, Error |-> ""]
    ELSE IF err # ""
    THEN [StatusCode |-> statusCode, Body |-> 0, BodyTruncated |-> FALSE, Error |-> "READ_BODY_FAILED"]
    ELSE [StatusCode |-> statusCode, Body |-> body, BodyTruncated |-> FALSE, Error |-> ""]

LrBlankOut == [pc |-> "idle", reads |-> 0, body |-> 0, err |-> "", firstErr |-> "", resp |-> NoResponse]

LrSources == [len : 0..MaxStream, eofWithData : BOOLEAN, flaky : BOOLEAN, status : {200, 404}]

LrAtRest ==
    /\ lrSrc = [len |-> 0, eofWithData |-> FALSE, flaky |-> FALSE, status |-> 200]
    /\ lrRd = NewLimitedReader(0)
    /\ lrOut = LrBlankOut

\* what a ByteHandler hands back: (resp, err), or a panic unwinding through it
Returned(resp, err) == [pc |-> "done", panicked |-> FALSE, resp |-> resp, err |-> err]

Panicked == [pc |-> "done", panicked |-> TRUE, resp |-> "", err |-> ""]

ChBlankOut == [pc |-> "idle", panicked |-> FALSE, resp |-> "", err |-> ""]

ChBlankCall == [in |-> BlankIn, panicAt |-> "none", handlerErr |-> FALSE]

\* the layer a panic is raised in, if any
ChLayers == {"none", "logging", "useragent", "capability", "handler"}

\* a plugin configuration: the keys the extractor and the plugin read; an
\* empty value is an absent key
NoConfig == [kind |-> "", url |-> <<>>, host |-> <<>>, target |-> <<>>, port |-> "",
             hostname |-> <<>>, nameserver |-> <<>>]

ChAtRest ==
    /\ chConfig = NoConfig
    /\ chGrants = [present |-> FALSE, grants |-> EmptyGrants]
    /\ chCall = ChBlankCall
    /\ chOut = ChBlankOut

PrBlankOut == [pc |-> "idle", text |-> <<>>, parsed |-> [err |-> "", ref |-> NoRef]]

PrAtRest ==
    /\ prRef = NoRef
    /\ prOut = PrBlankOut

NetAtRest ==
    /\ SdAtRest
    /\ HtAtRest
    /\ RtAtRest
    /\ LrAtRest
    /\ ChAtRest
    /\ PrAtRest

\* the step-wise models of Save, of the shared repository and of the shared
\* grant store at rest
ConcAtRest ==
    /\ SaveAtRest
    /\ RcAtRest
    /\ GcAtRest
    /\ NetAtRest

\* the later subsystems at rest, as the gatekeeper, middleware and repository
\* models leave them
SvcAtRest ==
    /\ service = [chain |-> <<"cached">>, requireSigning |-> FALSE, hasVerifier |-> FALSE]
    /\ svcRepo = NoDigest
    /\ svcWasm = NoDigest
    /\ svcRejected = NoEntity
    /\ SvcIdle

LockAtRest ==
    /\ lockDisk = Absent
    /\ LockIdle

LaterIdle ==
    /\ SvcAtRest
    /\ LockAtRest
    /\ ConcAtRest

\* the gatekeeper, the middleware and the repository at rest
EarlierIdle ==
    /\ gkLevel = SecurityStandard
    /\ gkInteractive = FALSE
    /\ store = EmptyGrants
    /\ GateIdle
    /\ mwGrants = [present |-> FALSE, grants |-> EmptyGrants]
    /\ MwIdle
    /\ repoRoot = <<Sep, "r">>
    /\ RepoIdle

(***************************************************************************)
(* Gatekeeper: state machine                                               *)
(***************************************************************************)
GateInit ==
    /\ gkLevel \in SecurityLevels
    /\ gkInteractive \in BOOLEAN
    /\ store \in InitStores
    /\ GateIdle
    /\ mwGrants = [present |-> FALSE, grants |-> EmptyGrants]
    /\ MwIdle
    /\ repoRoot = <<Sep, "r">>
    /\ RepoIdle
    /\ LaterIdle

\* one call of Gatekeeper.GrantCapabilities, with the store's and the prompter's
\* behaviour during the call drawn from what they can do
GrantCapabilitiesCall ==
    /\ gkPc = "idle"
    /\ gkCalls < MaxCalls
    /\ \E required \in RequiredSets, trustAll \in BOOLEAN,
          loadFails \in BOOLEAN, saveFails \in BOOLEAN :
         LET n == NumRequests(required, store, loadFails)
         IN  /\ n <= MaxPrompts
             /\ \E answers \in [1..n -> Answers] :
                  LET out == GrantCapabilities(required, trustAll, store, loadFails,
                                               saveFails, gkLevel, gkInteractive, answers)
                  IN  /\ gkOut' = out
                      /\ store' = out.newStore
    /\ gkPc' = "done"
    /\ gkCalls' = gkCalls + 1
    /\ UNCHANGED <<gkLevel, gkInteractive, mwVars, repoVars, laterVars>>

\* the caller takes the result
GateReturn ==
    /\ gkPc = "done"
    /\ gkPc' = "idle"
    /\ gkOut' = BlankOut
    /\ UNCHANGED <<gkLevel, gkInteractive, store, gkCalls, mwVars, repoVars, laterVars>>

GateNext == GrantCapabilitiesCall \/ GateReturn

SpecGate == GateInit /\ [][GateNext]_vars

(***************************************************************************)
(* Gatekeeper: properties                                                  *)
(***************************************************************************)
GateDone == gkPc = "done"

\* the rules of required that the stored grants do not cover
NotCovered == Difference(gkOut.required, gkOut.before)

\* every rule of g is covered by h
CoveredBy(g, h) == IsEmpty(Difference(g, h))

PromptedReqs == { gkOut.prompts[i].req : i \in 1..Len(gkOut.prompts) }

PromptAnswers == { gkOut.prompts[i].answer : i \in 1..Len(gkOut.prompts) }

\* broad as section 4.10 words it: the pattern is "*", "/**" or "**"
\* (a network rule: hosts = ["*"] and ports = ["*"])
BroadPattern(req) ==
    IF req.kind = "network"
    THEN req.hosts = <<Star>> /\ req.ports = <<PortAny>>
    ELSE req.pat \in {Star, SlashStarStar, StarStar}

\* C3: under the Strict level every broad request the gatekeeper comes to is
\* denied outright: the call fails with the strict-policy denial naming that
\* request, the prompter is not asked about it and nothing is saved.
C3_StrictDeniesBroad ==
    (GateDone /\ gkLevel = SecurityStrict) =>
        \A i \in 1..Len(gkOut.evaluated) :
            BroadPattern(gkOut.evaluated[i]) =>
                /\ gkOut.err = "strict_denied"
                /\ gkOut.errReq = gkOut.evaluated[i]
                /\ gkOut.evaluated[i] \notin PromptedReqs
                /\ gkOut.saves = 0
                /\ store = gkOut.before

\* C4 as stated: whenever a required rule is not covered by the stored grants
\* and the prompter is non-interactive, the call fails with the non-interactive
\* error listing the missing grants, with no prompt and no save.
C4_NonInteractiveAlwaysFails ==
    (GateDone /\ ~gkInteractive /\ ~IsEmpty(NotCovered)) =>
        /\ gkOut.err = "non_interactive"
        /\ ~gkOut.hasRet
        /\ CoveredBy(NotCovered, gkOut.listed)
        /\ gkOut.prompts = <<>>
        /\ gkOut.saves = 0
        /\ store = gkOut.before

\* C4 amended: the same for every call that is not made with trustAll; the
\* message lists exactly the deduplicated missing set, under every security level.
C4_NonInteractiveFails ==
    (GateDone /\ ~gkInteractive /\ ~gkOut.trustAll /\ ~IsEmpty(NotCovered)) =>
        /\ gkOut.err = "non_interactive"
        /\ ~gkOut.hasRet
        /\ gkOut.listed = gkOut.missing
        /\ CoveredBy(NotCovered, gkOut.listed)
        /\ gkOut.prompts = <<>>
        /\ gkOut.saves = 0
        /\ store = gkOut.before

C4_Witness ==
    /\ GateDone /\ ~gkInteractive /\ ~gkOut.trustAll
    /\ gkLevel = SecurityPermissive
    /\ gkOut.err = "non_interactive"
    /\ gkOut.listed.exec # <<>>
    /\ gkOut.before # EmptyGrants

\* C5: a deny answer ends the call: the error names the denied request, that
\* prompt is the last prompt and the last request looked at, no grant set is
\* returned and nothing is saved, whatever the earlier answers were.
C5_DenyAborts ==
    GateDone =>
        \A i \in 1..Len(gkOut.prompts) :
            gkOut.prompts[i].answer = "deny" =>
                /\ gkOut.err = "denied_by_user"
                /\ gkOut.errReq = gkOut.prompts[i].req
                /\ i = Len(gkOut.prompts)
                /\ gkOut.evaluated[Len(gkOut.evaluated)] = gkOut.prompts[i].req
                /\ ~gkOut.hasRet
                /\ gkOut.saves = 0
                /\ store = gkOut.before

C5_Witness ==
    /\ GateDone
    /\ Len(gkOut.prompts) = 2
    /\ gkOut.prompts[1].answer = "always"
    /\ gkOut.prompts[2].answer = "deny"
    /\ Len(AllRequests(gkOut.missing)) > 2
    /\ gkOut.err = "denied_by_user"

\* C6 as stated: in a call in which every prompt is granted, Save is called
\* exactly once if some answer was grant-always and not at all otherwise.
C6_SaveIffAlwaysEveryCall ==
    (GateDone /\ gkOut.prompts # <<>> /\ PromptAnswers \subseteq {"once", "always"}) =>
        IF "always" \in PromptAnswers
        THEN gkOut.saves = 1
        ELSE gkOut.saves = 0 /\ store = gkOut.before /\ gkOut.hasRet

\* C6 amended: in a call that returns a grant set after prompting (every prompt
\* granted and no request refused by the Strict policy), Save is called exactly
\* once if some answer was grant-always and not at all if all were grant-once;
\* then the store is left as it was and the set is only returned.
C6_SaveIffAlways ==
    (GateDone /\ gkOut.prompts # <<>> /\ PromptAnswers \subseteq {"once", "always"}
        /\ gkOut.err = "") =>
        /\ gkOut.hasRet
        /\ IF "always" \in PromptAnswers
           THEN gkOut.saves = 1
           ELSE gkOut.saves = 0 /\ store = gkOut.before
        /\ \A i \in 1..Len(gkOut.prompts) :
              CoveredBy(ToMerge(gkOut.prompts[i].req), gkOut.ret)

C6_Witness ==
    /\ GateDone /\ gkOut.err = ""
    /\ Len(gkOut.prompts) = 2
    /\ PromptAnswers = {"once"}
    /\ gkOut.saves = 0 /\ gkOut.hasRet
    /\ gkOut.ret # gkOut.before

\* C7: an empty required set gives an empty grant set, trustAll with a non-empty
\* required set gives a set equal to required; in both cases no prompter method
\* is called and the store is neither loaded nor saved, whatever the level and
\* the prompter.
C7_EmptyAndTrustAll ==
    (GateDone /\ (IsEmpty(gkOut.required) \/ gkOut.trustAll)) =>
        /\ gkOut.err = "" /\ gkOut.hasRet
        /\ IF IsEmpty(gkOut.required)
           THEN gkOut.ret = EmptyGrants
           ELSE gkOut.ret = gkOut.required
        /\ ~gkOut.interactiveAsked
        /\ gkOut.prompts = <<>>
        /\ gkOut.loads = 0
        /\ gkOut.saves = 0
        /\ store = gkOut.before

C7_Witness ==
    /\ GateDone /\ gkOut.trustAll /\ ~IsEmpty(gkOut.required)
    /\ ~gkInteractive /\ gkLevel = SecurityStrict
    /\ ~IsEmpty(NotCovered)
    /\ gkOut.ret = gkOut.required

\* the requests GrantCapabilities has to decide: those of the deduplicated
\* difference of required and what Load returned
MissingRequests == AllRequests(gkOut.missing)

\* C8 as stated: under Permissive every missing request is added to the
\* returned set without a prompt and without a save.
C8_PermissiveGrantsEveryCall ==
    (GateDone /\ gkLevel = SecurityPermissive /\ ~gkOut.trustAll
        /\ ~IsEmpty(NotCovered)) =>
        /\ gkOut.hasRet
        /\ CoveredBy(NotCovered, gkOut.ret)
        /\ gkOut.prompts = <<>>
        /\ gkOut.saves = 0

\* C8 amended: under Permissive with an interactive prompter every missing
\* request, broad or not, is added to the returned set; PromptForCapability is
\* not called and nothing is saved.
C8_PermissiveGrants ==
    (GateDone /\ gkLevel = SecurityPermissive /\ gkInteractive /\ ~gkOut.trustAll
        /\ ~IsEmpty(NotCovered)) =>
        /\ gkOut.hasRet /\ gkOut.err = ""
        /\ gkOut.auto = MissingRequests
        /\ \A i \in 1..Len(MissingRequests) :
              CoveredBy(ToMerge(MissingRequests[i]), gkOut.ret)
        /\ CoveredBy(NotCovered, gkOut.ret)
        /\ gkOut.prompts = <<>>
        /\ gkOut.saves = 0
        /\ store = gkOut.before

C8_Witness ==
    /\ GateDone /\ gkLevel = SecurityPermissive /\ gkInteractive
    /\ \E i \in 1..Len(gkOut.auto) : gkOut.auto[i].isBroad
    /\ \E i \in 1..Len(gkOut.auto) : ~gkOut.auto[i].isBroad
    /\ gkOut.hasRet

(***************************************************************************)
(* Capability middleware: state machine                                    *)
(***************************************************************************)
MwInit ==
    /\ mwGrants \in MwGrantChoices
    /\ MwIdle
    /\ gkLevel = SecurityStandard
    /\ gkInteractive = FALSE
    /\ store = EmptyGrants
    /\ GateIdle
    /\ repoRoot = <<Sep, "r">>
    /\ RepoIdle
    /\ LaterIdle

\* a host call enters CapabilityMiddleware, which returns a validation error
\* or calls next
CapabilityMiddlewareCall ==
    /\ mwPc = "idle"
    /\ \E in \in MwInputs :
         LET r == CapabilityMiddleware(mwGrants, in)
         IN  /\ mwIn' = in
             /\ mwCtx' = r.ctx
             /\ mwOut' = [BlankMwOut EXCEPT
                            !.check = r.check,
                            !.denied = r.denied,
                            !.resp = IF r.denied THEN "validation_error" ELSE ""]
             /\ mwPc' = IF r.callNext THEN "next" ELSE "done"
    /\ UNCHANGED <<mwGrants, gkVars, repoVars, laterVars>>

\* next: the handler of the host function decodes the payload and performs the
\* call; http_request goes through PerformHTTPRequest
NextHandler ==
    /\ mwPc = "next"
    /\ \E net \in Networks, follow \in BOOLEAN, maxRedirects \in {0, 2},
          locations \in LocationChains :
         IF ~mwIn.parsed
         THEN mwOut' = [mwOut EXCEPT !.nextInvoked = TRUE, !.resp = "handler_error"]
         ELSE IF mwIn.fn = "http_request"
         THEN LET h == PerformHTTPRequest(mwCtx, mwIn.url, net)
              IN  mwOut' = [mwOut EXCEPT !.nextInvoked = TRUE,
                                         !.io = h.ip # "",
                                         !.resp = h.code,
                                         !.http = h,
                                         !.follow = follow,
                                         !.locations = locations,
                                         !.connects =
                                            clientDo(mwCtx, mwIn.url, locations, net,
                                                     applyRequestConfig(maxRedirects, follow), 0)]
         ELSE mwOut' = [mwOut EXCEPT !.nextInvoked = TRUE, !.io = TRUE,
                                     !.resp = "OK"]
    /\ mwPc' = "done"
    /\ UNCHANGED <<mwGrants, mwIn, mwCtx, gkVars, repoVars, laterVars>>

\* the response goes back to the guest
MwReturn ==
    /\ mwPc = "done"
    /\ mwPc' = "idle"
    /\ mwIn' = BlankIn
    /\ mwCtx' = BlankCtx
    /\ mwOut' = BlankMwOut
    /\ UNCHANGED <<mwGrants, gkVars, repoVars, laterVars>>

MwNext == CapabilityMiddlewareCall \/ NextHandler \/ MwReturn

SpecMw == MwInit /\ [][MwNext]_vars

(***************************************************************************)
(* Capability middleware: properties                                       *)
(***************************************************************************)
MwDone == mwPc = "done"

\* C1: for a call of a checked host function, next is invoked only after a
\* capability check of the call's request has allowed it; a denied check
\* returns a validation error without next being invoked.
C1_CheckPrecedesNext ==
    (MwDone /\ mwIn.fn \in CheckedFuncs) =>
        /\ mwOut.nextInvoked => (mwOut.check.checked /\ mwOut.check.allowed)
        /\ mwOut.denied => (~mwOut.nextInvoked /\ mwOut.resp = "validation_error")

\* C2: an http_request connects to a private, loopback or link-local address
\* only if the plugin's grants allow the private network; otherwise the
\* connection is blocked and the response carries SSRF_BLOCKED.
C2_PrivateOnlyIfAllowed ==
    (MwDone /\ mwIn.fn = "http_request" /\ mwOut.nextInvoked
        /\ IsInternalIP(mwOut.http.ip) /\ ~AllowsPrivateNetwork(mwGrants)) =>
        /\ ~mwOut.http.connected
        /\ mwOut.resp = "SSRF_BLOCKED"

(***************************************************************************)
(* Plugin repository: state machine                                        *)
(***************************************************************************)
RepoInit ==
    /\ repoRoot \in RepoRoots
    /\ RepoIdle
    /\ gkLevel = SecurityStandard
    /\ gkInteractive = FALSE
    /\ store = EmptyGrants
    /\ GateIdle
    /\ mwGrants = [present |-> FALSE, grants |-> EmptyGrants]
    /\ MwIdle
    /\ LaterIdle

RepoCallGuard == repoPc = "idle" /\ repoCalls < MaxRepoCalls

RepoStore ==
    /\ RepoCallGuard
    /\ \E plugin \in Plugins, fault \in StoreFaults :
         LET r == Store(repoRoot, repoFs, plugin, fault)
         IN  /\ repoOut' = r.out
             /\ repoFs' = r.fs
             /\ repoLast' = [repoLast EXCEPT ![plugin.ref] =
                                IF r.out.err = ""
                                THEN [stored |-> TRUE, digest |-> plugin.digest]
                                ELSE NotStored]
    /\ repoPc' = "done"
    /\ repoCalls' = repoCalls + 1
    /\ UNCHANGED <<repoRoot, gkVars, mwVars, laterVars>>

RepoFind ==
    /\ RepoCallGuard
    /\ \E ref \in Refs : repoOut' = Find(repoRoot, repoFs, ref)
    /\ repoPc' = "done"
    /\ repoCalls' = repoCalls + 1
    /\ UNCHANGED <<repoRoot, repoFs, repoLast, gkVars, mwVars, laterVars>>

RepoDelete ==
    /\ RepoCallGuard
    /\ \E ref \in Refs :
         LET r == Delete(repoRoot, repoFs, ref)
         IN  /\ repoOut' = r.out
             /\ repoFs' = r.fs
             /\ repoLast' = [repoLast EXCEPT ![ref] = NotStored]
    /\ repoPc' = "done"
    /\ repoCalls' = repoCalls + 1
    /\ UNCHANGED <<repoRoot, gkVars, mwVars, laterVars>>

\* the caller takes the result
RepoReturn ==
    /\ repoPc = "done"
    /\ repoPc' = "idle"
    /\ repoOut' = BlankRepoOut
    /\ UNCHANGED <<repoRoot, repoFs, repoCalls, repoLast, gkVars, mwVars, laterVars>>

RepoNext == RepoStore \/ RepoFind \/ RepoDelete \/ RepoReturn

SpecRepo == RepoInit /\ [][RepoNext]_vars

(***************************************************************************)
(* Plugin repository: properties                                           *)
(***************************************************************************)
RepoDone == repoPc = "done"

\* the directory relative paths are resolved against
Cwd == <<Sep, "home", Sep, "u">>

Abs(path) == IF IsAbs(path) THEN Clean(path) ELSE Join(Cwd, path)

\* path names the directory root names or something below it
LiesWithin(path, root) ==
    \/ Abs(path) = Abs(root)
    \/ HasPrefix(Abs(path), Abs(root) \o <<Sep>>)

\* C9: pluginPath fails with a security violation or returns the root or a
\* path below it; when it fails, Store, Find and Delete return that error
\* without a filesystem operation.
C9_PathWithinRoot ==
    RepoDone =>
        LET pp == pluginPath(repoRoot, repoOut.plugin.ref)
        IN  IF pp.err # ""
            THEN /\ IsSecurityViolation(pp.err)
                 /\ repoOut.err = pp.err
                 /\ repoOut.fsOps = 0
                 /\ repoFs = repoOut.before
            ELSE LiesWithin(pp.path, repoRoot)

\* C10: with no I/O failure, Store of a reference held with another digest
\* fails with an integrity error and leaves binary, metadata and digest as
\* they were; Store of what is already held succeeds and changes nothing.
C10_DivergentDigestRejected ==
    (RepoDone /\ repoOut.op = "store" /\ repoOut.fault = "none"
        /\ pluginPath(repoRoot, repoOut.plugin.ref).err = "") =>
        LET path == pluginPath(repoRoot, repoOut.plugin.ref).path
            old == FilesAt(repoOut.before, path)
            new == [wasm |-> repoOut.plugin.wasm, meta |-> repoOut.plugin.meta,
                    digest |-> repoOut.plugin.digest]
        IN  /\ (old.digest \notin {"none", new.digest}) =>
                  /\ repoOut.err = "integrity error"
                  /\ repoFs = repoOut.before
            /\ (old = new) => (repoOut.err = "" /\ repoFs = repoOut.before)

\* C11: for every reference whose last completed Store or Delete was a
\* successful Store with digest D, Find returns a plugin with that reference
\* and digest D, and the path of its binary.
C11_FindReturnsLastStore ==
    \A r \in Refs :
        repoLast[r].stored =>
            LET f == Find(repoRoot, repoFs, r)
            IN  /\ f.err = ""
                /\ f.plugin.ref = r
                /\ f.found.digest = repoLast[r].digest
                /\ f.path = Join(pluginPath(repoRoot, r).path, <<"plugin.wasm">>)

(***************************************************************************)
(* Plugin service: state machine                                           *)
(***************************************************************************)
SvcInit ==
    /\ service \in Services
    /\ svcRepo \in {NoDigest, Dabc, Dbad}
    /\ svcWasm = svcRepo
    /\ svcRejected = NoEntity
    /\ SvcIdle
    /\ EarlierIdle
    /\ LockAtRest
    /\ ConcAtRest

\* one call of PluginService.LoadPlugin, with the behaviour of the registry,
\* the repository and the verifier during the call drawn from what they can do
LoadPluginCall ==
    /\ svcPc = "idle"
    /\ \E spec \in SvcSpecs, env \in SvcEnvs :
         /\ svcIn' = [spec |-> spec, repo |-> svcRepo, env |-> env]
         /\ svcOut' = LoadPlugin(service, spec, svcRepo, env)
         /\ svcRepo' = LoadPlugin(service, spec, svcRepo, env).repo
         /\ svcWasm' = storedWasm(LoadPlugin(service, spec, svcRepo, env), svcWasm, env)
    /\ svcPc' = "done"
    /\ UNCHANGED <<service, svcRejected, gkVars, mwVars, repoVars, lockVars, concVars>>

\* the caller takes the path or the error
SvcReturn ==
    /\ svcPc = "done"
    /\ svcPc' = "idle"
    /\ svcIn' = NoSvcIn
    /\ svcOut' = BlankLoad
    /\ svcRejected' = IF failedVerification(svcOut) THEN svcOut.resolved ELSE NoEntity
    /\ UNCHANGED <<service, svcRepo, svcWasm, gkVars, mwVars, repoVars, lockVars, concVars>>

SvcNext == LoadPluginCall \/ SvcReturn

SpecSvc == SvcInit /\ [][SvcNext]_vars

(***************************************************************************)
(* Lockfile service: state machine                                         *)
(***************************************************************************)
LockInit ==
    /\ lockDisk \in InitDisks
    /\ LockIdle
    /\ EarlierIdle
    /\ SvcAtRest
    /\ ConcAtRest

LockCallGuard == lockPc = "idle" /\ lockClock < MaxTime

\* the call starts at the next instant of the clock
LockCall(in, out) ==
    /\ lockIn' = in
    /\ lockOut' = out
    /\ lockDisk' = out.disk
    /\ lockClock' = lockClock + 1
    /\ lockPc' = "done"
    /\ UNCHANGED <<lockPrev, gkVars, mwVars, repoVars, svcVars, concVars>>

ResolvePluginsCall ==
    /\ LockCallGuard
    /\ \E decls \in DeclLists, fault \in LockFaults :
         LockCall([NoLockIn EXCEPT !.op = "resolve", !.decls = decls, !.fault = fault],
                  ResolvePlugins(lockDisk, decls, lockClock + 1, fault))

LockProfileCall ==
    /\ LockCallGuard
    /\ \E version \in {"v1", "v2"}, digest \in {"", "sha256:p1"}, fault \in LockFaults :
         LockCall([NoLockIn EXCEPT !.op = "lockprofile", !.url = ProfileURL, !.version = version,
                                   !.digest = digest, !.fault = fault],
                  LockProfile(lockDisk, ProfileURL, version, digest, lockClock + 1, fault))

GetLockedProfileCall ==
    /\ LockCallGuard
    /\ \E fault \in {"none", "load"} :
         LockCall([NoLockIn EXCEPT !.op = "getprofile", !.url = ProfileURL, !.fault = fault],
                  GetLockedProfile(lockDisk, ProfileURL, fault))

\* the caller takes the result; the call is remembered as the previous one
LockReturn ==
    /\ lockPc = "done"
    /\ lockPc' = "idle"
    /\ lockPrev' = [in |-> lockIn, out |-> lockOut]
    /\ lockIn' = NoLockIn
    /\ lockOut' = BlankLockOut
    /\ UNCHANGED <<lockDisk, lockClock, gkVars, mwVars, repoVars, svcVars, concVars>>

LockNext == ResolvePluginsCall \/ LockProfileCall \/ GetLockedProfileCall \/ LockReturn

SpecLock == LockInit /\ [][LockNext]_vars

(***************************************************************************)
(* Plugin service: properties                                              *)
(***************************************************************************)
SvcDone == svcPc = "done"

\* the digest the spec of the call asks for; a digest with an empty value is
\* the absent digest
ExpectedDigest == ParseDigest(svcIn.spec.digest).digest
CarriesDigest == ExpectedDigest.value # <<>>

C13_PathOnlyIfSignatureVerified ==
    (SvcDone /\ service.requireSigning) =>
        /\ svcOut.path # <<>> => (svcOut.sigCalled /\ svcOut.sigVerified)
        /\ (svcOut.sigCalled /\ ~svcOut.sigVerified) =>
              (svcOut.path = <<>> /\ svcOut.err # NoErr)

\* whether the resolver of a kind can supply the reference of the call
CanSupply(kind) ==
    CASE kind = "cached" -> svcIn.repo # NoDigest /\ svcIn.env.fault # "find"
      [] kind = "registry" -> svcIn.env.pull = "ok" /\ svcIn.env.fault # "store"
      [] kind = "embedded" -> IsEmbedded(svcOut.ref) /\ svcOut.ref.name \in EmbeddedNames

\* C14: in the chain Cached, Registry, (Embedded) every resolver returns a
\* plugin or delegates to the next one, so the resolvers are consulted in
\* order up to the first that can supply the reference, and a reference none
\* of them can supply ends with a PluginNotFound error.
C14_ChainEndsWithNotFound ==
    (SvcDone /\ svcOut.resolveCalled
        /\ service.chain \in {<<"cached", "registry">>, <<"cached", "registry", "embedded">>}) =>
        LET chain == service.chain
            suppliers == {i \in 1..Len(chain) : CanSupply(chain[i])}
        IN  /\ suppliers = {} =>
                  /\ svcOut.consulted = chain
                  /\ ErrorsIs(svcOut.err, PluginNotFound)
            /\ suppliers # {} =>
                  LET first == CHOOSE i \in suppliers : \A j \in suppliers : i <= j
                  IN  /\ svcOut.consulted = SubSeq(chain, 1, first)
                      /\ svcOut.resolved # NoEntity

(***************************************************************************)
(* Lockfile service: properties                                            *)
(***************************************************************************)
LockDone == lockPc = "done"

ResolveSucceeded == LockDone /\ lockOut.op = "resolve" /\ lockOut.err = ""

IsDocument(disk) == disk # Absent /\ disk # Torn

\* the constraint a declaration asks for
ConstraintOf(decl) ==
    LET spec == ParsePluginDeclaration(decl)
    IN  IF spec.version = <<>> THEN <<"latest">> ELSE spec.version

\* a declaration of the call names the plugin with another constraint than
\* the one its entry was locked with
ConstraintChanged(name) ==
    \E i \in 1..Len(lockIn.decls) :
        /\ ParsePluginDeclaration(lockIn.decls[i]).name = name
        /\ ConstraintOf(lockIn.decls[i]) # lockOut.before.plugins[name].requested

\* C15 as stated: ResolvePlugins never changes the digest of a plugin entry
\* that already exists in the lockfile.
C15_ExistingDigestNeverChanges ==
    ResolveSucceeded =>
        \A name \in DOMAIN lockOut.before.plugins :
            /\ GetPlugin(lockOut.lock, name) # Nil
            /\ GetPlugin(lockOut.lock, name).digest = lockOut.before.plugins[name].digest

\* C15: a successful ResolvePlugins leaves every existing plugin entry as it
\* was, digest included, in the lockfile it returns and in the file, unless a
\* declaration names the plugin with a constraint other than the entry's
\* requested one; every declared plugin has an entry afterwards.
C15_ExistingEntryKeptUnlessConstraintChanged ==
    ResolveSucceeded =>
        /\ \A name \in DOMAIN lockOut.before.plugins :
              ~ConstraintChanged(name) =>
                  /\ GetPlugin(lockOut.lock, name) = lockOut.before.plugins[name]
                  /\ IsDocument(lockDisk) =>
                        GetPlugin(ToEntity(lockDisk), name) = lockOut.before.plugins[name]
        /\ \A i \in 1..Len(lockIn.decls) :
              GetPlugin(lockOut.lock, ParsePluginDeclaration(lockIn.decls[i]).name) # Nil

C15_Witness ==
    /\ ResolveSucceeded
    /\ lockOut.saved
    /\ \E name \in DOMAIN lockOut.before.plugins :
          /\ ~ConstraintChanged(name)
          /\ \E i \in 1..Len(lockIn.decls) : ParsePluginDeclaration(lockIn.decls[i]).name = name
          /\ lockOut.before.plugins[name].digest # Placeholder
          /\ GetPlugin(lockOut.lock, name) = lockOut.before.plugins[name]

\* C16: a second ResolvePlugins with the same list, run on the lockfile the
\* first run produced, changes no entry and does not call Save.
C16_SecondRunChangesNothing ==
    (LockDone /\ lockOut.op = "resolve"
        /\ lockPrev.in.op = "resolve" /\ lockPrev.out.err = ""
        /\ lockPrev.in.decls = lockIn.decls) =>
        /\ ~lockOut.saved
        /\ lockDisk = lockPrev.out.disk
        /\ lockOut.err = "" => lockOut.lock.plugins = lockPrev.out.lock.plugins

\* C17: a lockfile saved through FileLockfileRepository and loaded back has
\* the same version, plugin entries and profile entries; after a successful
\* LockProfile(url, version, digest), GetLockedProfile(url) returns an entry
\* with that version and digest.
C17_SaveLoadRoundTrip ==
    /\ (LockDone /\ lockOut.saved /\ lockOut.err = "") =>
          LET loaded == LockLoad(lockDisk, "none")
          IN  /\ loaded.err = ""
              /\ loaded.lock # Nil
              /\ loaded.lock.version = lockOut.lock.version
              /\ loaded.lock.plugins = lockOut.lock.plugins
              /\ loaded.lock.profiles = lockOut.lock.profiles
    /\ (LockDone /\ lockOut.op = "getprofile" /\ lockOut.err = ""
            /\ lockPrev.in.op = "lockprofile" /\ lockPrev.out.err = "") =>
          /\ lockOut.lock # Nil
          /\ lockOut.lock.resolved = lockPrev.in.version
          /\ lockOut.lock.digest = lockPrev.in.digest

(***************************************************************************)
(* Save of the lockfile and of the grant store: state machine              *)
(***************************************************************************)
SaveInit ==
    /\ saveKind \in {"lockfile", "grants"}
    /\ saveFile \in SaveInitFiles(saveKind)
    /\ SaveIdle
    /\ EarlierIdle
    /\ SvcAtRest
    /\ LockAtRest
    /\ RcAtRest
    /\ GcAtRest
    /\ NetAtRest

SaveOther == <<saveKind, gkVars, mwVars, repoVars, svcVars, lockVars, rcVars, gcVars, netVars>>

\* Save is called; the grant store marshals its data before it touches the disk
SaveBegin ==
    /\ savePc = "idle"
    /\ \E payload \in SavePayloads(saveKind) : saveNew' = SaveData(saveKind, payload)
    /\ saveOld' = saveFile
    /\ savePc' = "mkdir"
    /\ UNCHANGED <<saveFile, SaveOther>>

\* os.MkdirAll of the enclosing directory
SaveMkdirAll ==
    /\ savePc = "mkdir"
    /\ savePc' \in {"open", "failed"}
    /\ UNCHANGED <<saveFile, saveOld, saveNew, SaveOther>>

\* the file is opened for writing and truncated, or the open fails
SaveOpenFile ==
    /\ savePc = "open"
    /\ \/ savePc' = "write" /\ saveFile' = OpenTrunc(saveFile)
       \/ savePc' = "failed" /\ saveFile' = saveFile
    /\ UNCHANGED <<saveOld, saveNew, SaveOther>>

\* the data reaches the file, a part at a time; a write may fail
SaveWrite ==
    /\ savePc = "write"
    /\ \/ saveFile.state = "empty" /\ savePc' = "write" /\ saveFile' = FilePartial(saveNew)
       \/ savePc' = "close" /\ saveFile' = FileFull(saveNew)
       \/ savePc' = "failed" /\ saveFile' = saveFile
    /\ UNCHANGED <<saveOld, saveNew, SaveOther>>

SaveClose ==
    /\ savePc = "close"
    /\ savePc' = "done"
    /\ UNCHANGED <<saveFile, saveOld, saveNew, SaveOther>>

\* Save returns its error or nil
SaveReturn ==
    /\ savePc \in {"done", "failed"}
    /\ savePc' = "idle"
    /\ saveOld' = saveFile
    /\ saveNew' = Nil
    /\ UNCHANGED <<saveFile, SaveOther>>

\* the process stops while Save runs; the file stays as the last step left it
SaveCrash ==
    /\ savePc \in {"mkdir", "open", "write", "close"}
    /\ savePc' = "crashed"
    /\ UNCHANGED <<saveFile, saveOld, saveNew, SaveOther>>

SaveNext ==
    \/ SaveBegin \/ SaveMkdirAll \/ SaveOpenFile \/ SaveWrite
    \/ SaveClose \/ SaveReturn \/ SaveCrash

SpecSave == SaveInit /\ [][SaveNext]_vars

\* C18: if the process stops at any point during a Save of the lockfile or of
\* the grant store, the file holds the complete old contents or the complete
\* new contents, never an empty or partially written file.
C18_CrashLeavesOldOrNew ==
    savePc = "crashed" => (saveFile = saveOld \/ saveFile = FileFull(saveNew))

(***************************************************************************)
(* Plugin repository with a concurrent reader and writer: state machine    *)
(***************************************************************************)
RcInit ==
    /\ rcFiles \in {RcStored("v1"), RcNone}
    /\ RcIdle
    /\ EarlierIdle
    /\ SvcAtRest
    /\ LockAtRest
    /\ SaveAtRest
    /\ GcAtRest
    /\ NetAtRest

RcOther == <<gkVars, mwVars, repoVars, svcVars, lockVars, saveVars, gcVars, netVars>>

\* Store(R) of a plugin: os.MkdirAll of the plugin directory
StoreMkdirAll ==
    /\ rcWriter.pc = "idle"
    /\ \E v \in RcPlugins : rcWriter' = [pc |-> "create_wasm", plugin |-> v]
    /\ UNCHANGED <<rcFiles, rcReader, RcOther>>

\* os.Create of plugin.wasm
StoreCreateWasm ==
    /\ rcWriter.pc = "create_wasm"
    /\ rcWriter' = [rcWriter EXCEPT !.pc = "copy"]
    /\ rcFiles' = [rcFiles EXCEPT !.wasm = RcTruncate(@)]
    /\ UNCHANGED <<rcReader, RcOther>>

\* io.Copy writes the binary a part at a time
StoreCopy ==
    /\ rcWriter.pc = "copy"
    /\ \/ /\ rcFiles.wasm.state = "empty"
          /\ rcWriter' = rcWriter
          /\ rcFiles' = [rcFiles EXCEPT !.wasm = RcFile("partial", rcWriter.plugin)]
       \/ /\ rcWriter' = [rcWriter EXCEPT !.pc = "create_meta"]
          /\ rcFiles' = [rcFiles EXCEPT !.wasm = RcFile("full", rcWriter.plugin)]
    /\ UNCHANGED <<rcReader, RcOther>>

\* saveMetadata: os.Create of metadata.json
StoreCreateMeta ==
    /\ rcWriter.pc = "create_meta"
    /\ rcWriter' = [rcWriter EXCEPT !.pc = "encode_meta"]
    /\ rcFiles' = [rcFiles EXCEPT !.meta = RcTruncate(@)]
    /\ UNCHANGED <<rcReader, RcOther>>

\* saveMetadata: the JSON encoder writes the metadata
StoreEncodeMeta ==
    /\ rcWriter.pc = "encode_meta"
    /\ rcWriter' = [rcWriter EXCEPT !.pc = "open_digest"]
    /\ rcFiles' = [rcFiles EXCEPT !.meta = RcFile("full", rcWriter.plugin)]
    /\ UNCHANGED <<rcReader, RcOther>>

\* saveDigest: os.WriteFile truncates digest.txt
StoreOpenDigest ==
    /\ rcWriter.pc = "open_digest"
    /\ rcWriter' = [rcWriter EXCEPT !.pc = "write_digest"]
    /\ rcFiles' = [rcFiles EXCEPT !.digest = RcTruncate(@)]
    /\ UNCHANGED <<rcReader, RcOther>>

\* saveDigest: os.WriteFile writes the digest
StoreWriteDigest ==
    /\ rcWriter.pc = "write_digest"
    /\ rcWriter' = [rcWriter EXCEPT !.pc = "done"]
    /\ rcFiles' = [rcFiles EXCEPT !.digest = RcFile("full", rcWriter.plugin)]
    /\ UNCHANGED <<rcReader, RcOther>>

\* Store returns the path
StoreReturn ==
    /\ rcWriter.pc = "done"
    /\ rcWriter' = RcBlankWrite
    /\ UNCHANGED <<rcFiles, rcReader, RcOther>>

\* Find(R): os.Stat of plugin.wasm
FindStat ==
    /\ rcReader.pc = "idle"
    /\ rcReader.calls < MaxFinds
    /\ rcReader' = IF rcFiles.wasm.state = "absent"
                   THEN [rcReader EXCEPT !.pc = "done", !.err = "not_found", !.calls = @ + 1]
                   ELSE [rcReader EXCEPT !.pc = "metadata", !.calls = @ + 1]
    /\ UNCHANGED <<rcFiles, rcWriter, RcOther>>

\* loadMetadata: open and decode metadata.json
FindLoadMetadata ==
    /\ rcReader.pc = "metadata"
    /\ rcReader' = IF RcReadable(rcFiles.meta)
                   THEN [rcReader EXCEPT !.pc = "digest", !.meta = rcFiles.meta.of]
                   ELSE [rcReader EXCEPT !.pc = "done", !.err = "metadata"]
    /\ UNCHANGED <<rcFiles, rcWriter, RcOther>>

\* loadDigest: read and parse digest.txt; then Find returns the plugin and the
\* path of plugin.wasm, which holds what the writer has put there so far
FindLoadDigest ==
    /\ rcReader.pc = "digest"
    /\ rcReader' = IF RcReadable(rcFiles.digest)
                   THEN [rcReader EXCEPT !.pc = "done", !.digest = rcFiles.digest.of,
                                         !.wasm = rcFiles.wasm]
                   ELSE [rcReader EXCEPT !.pc = "done", !.err = "digest"]
    /\ UNCHANGED <<rcFiles, rcWriter, RcOther>>

\* the caller takes the result and may call Find again
FindReturn ==
    /\ rcReader.pc = "done"
    /\ rcReader' = [RcBlankRead EXCEPT !.calls = rcReader.calls]
    /\ UNCHANGED <<rcFiles, rcWriter, RcOther>>

RcNext ==
    \/ StoreMkdirAll \/ StoreCreateWasm \/ StoreCopy \/ StoreCreateMeta
    \/ StoreEncodeMeta \/ StoreOpenDigest \/ StoreWriteDigest \/ StoreReturn
    \/ FindStat \/ FindLoadMetadata \/ FindLoadDigest \/ FindReturn

SpecRepoConc == RcInit /\ [][RcNext]_vars

FindSucceeded == rcReader.pc = "done" /\ rcReader.err = ""

\* C19: a Find(R) that runs while a Store(R) replaces the plugin returns the
\* complete old plugin or the complete new one (or an error): metadata, digest
\* and binary are of the same plugin and the binary at the path is complete.
C19_FindSeesOldOrNew ==
    FindSucceeded =>
        /\ rcReader.meta = rcReader.digest
        /\ rcReader.wasm = RcFile("full", rcReader.digest)

(***************************************************************************)
(* Two concurrent GrantCapabilities calls: state machine                   *)
(***************************************************************************)
GcInit ==
    /\ gcStore \in InitStores
    /\ gcLevel \in SecurityLevels
    /\ GcIdle
    /\ EarlierIdle
    /\ SvcAtRest
    /\ LockAtRest
    /\ SaveAtRest
    /\ RcAtRest
    /\ NetAtRest

GcOther == <<gcLevel, gkVars, mwVars, repoVars, svcVars, lockVars, saveVars, rcVars, netVars>>

\* caller p enters GrantCapabilities with its required set
GcBegin(p) ==
    /\ gcProc[p].pc = "idle"
    /\ \E required \in RequiredSets :
         gcProc' = [gcProc EXCEPT ![p].pc = "load", ![p].required = required]
    /\ UNCHANGED <<gcStore, GcOther>>

\* store.Load reads the grants file
GcLoad(p) ==
    /\ gcProc[p].pc = "load"
    /\ gcProc' = [gcProc EXCEPT ![p].pc = "prompt", ![p].loaded = gcStore]
    /\ UNCHANGED <<gcStore, GcOther>>

\* the prompts are answered and, after an "always", store.Save writes the
\* grants computed from what was loaded
GcPromptAndSave(p) ==
    /\ gcProc[p].pc = "prompt"
    /\ LET n == NumRequests(gcProc[p].required, gcProc[p].loaded, FALSE)
       IN  /\ n <= MaxPrompts
           /\ \E answers \in {AlwaysAnswers(n), [k \in 1..n |-> "once"]} :
                LET out == GrantCapabilities(gcProc[p].required, FALSE, gcProc[p].loaded,
                                             FALSE, FALSE, gcLevel, TRUE, answers)
                IN  /\ gcProc' = [gcProc EXCEPT ![p].pc = "done", ![p].out = out]
                    /\ gcStore' = IF out.saves > 0 THEN out.newStore ELSE gcStore
    /\ UNCHANGED GcOther

GcNext == \E p \in Procs : GcBegin(p) \/ GcLoad(p) \/ GcPromptAndSave(p)

SpecGateConc == GcInit /\ [][GcNext]_vars

\* the call of p returned a grant set after an "always" answer and saved it
EndedWithAlways(p) ==
    /\ gcProc[p].pc = "done"
    /\ gcProc[p].out.err = ""
    /\ gcProc[p].out.saves = 1

\* C20: when two concurrent GrantCapabilities calls on one store both end with
\* a grant-always approval, the store afterwards holds what each of them
\* saved: no approval is lost.
C20_NoApprovalLost ==
    (\A p \in Procs : EndedWithAlways(p)) =>
        \A p \in Procs : IsEmpty(Difference(gcProc[p].out.newStore, gcStore))

(***************************************************************************)
(* SecureDialer: the steps of DialContext                                  *)
(***************************************************************************)
\* the gatekeeper, middleware, repository, service, lockfile, Save, shared
\* repository and shared grant store at rest
OldIdle ==
    /\ EarlierIdle
    /\ SvcAtRest
    /\ LockAtRest
    /\ SaveAtRest
    /\ RcAtRest
    /\ GcAtRest

oldVars == <<gkVars, mwVars, repoVars, svcVars, lockVars, saveVars, rcVars, gcVars>>

SdConfig ==
    /\ sdAllow \in BOOLEAN
    /\ sdOnBlocked \in BOOLEAN
    /\ sdTTL \in 1..MaxTTL
    /\ sdCache = SdEmptyCache
    /\ SdIdle
    /\ OldIdle
    /\ HtAtRest
    /\ RtAtRest
    /\ LrAtRest
    /\ ChAtRest
    /\ PrAtRest

\* one goroutine dials through the dialer
SdInit ==
    /\ sdActive = {1}
    /\ sdClock = 0
    /\ SdConfig

\* several goroutines dial through the dialer at once, from an instant on
\* from which the clock is read once more
SdConcInit ==
    /\ sdActive = SdProcs
    /\ sdClock = MaxClock - 1
    /\ SdConfig

SdOther == <<sdAllow, sdOnBlocked, sdTTL, sdActive, oldVars, htVars, rtVars, lrVars, chVars, prVars>>

\* DialContext up to net.SplitHostPort
splitHostPort(pr, a) ==
    IF a.port = ""
    THEN [SdBlankProc EXCEPT !.pc = "done", !.host = a.host, !.err = "invalid address", !.dials = pr.dials + 1]
    ELSE [SdBlankProc EXCEPT !.pc = "getCached", !.host = a.host, !.port = a.port, !.dials = pr.dials + 1]

\* the dials a goroutine makes: the first goroutine up to MaxDials, every
\* other one a single dial beside it
SdBudget(p) == IF p = 1 THEN MaxDials ELSE 1

SdDialBegin(p) ==
    /\ p \in sdActive
    /\ sdProc[p].pc = "idle"
    /\ sdProc[p].dials < SdBudget(p)
    /\ \E a \in SdAddrs : sdProc' = [sdProc EXCEPT ![p] = splitHostPort(sdProc[p], a)]
    /\ UNCHANGED <<sdCache, sdClock, sdPrev, SdOther>>

\* DialContext going on to pin and dial whatever validateWithNetfilter said
afterNetfilter_Dials(pr, v) ==
    [pr EXCEPT !.pc = "cacheIP", !.ip = pr.host[1], !.checked = pr.host[1]]

\* DialContext after validateWithNetfilter on an IP literal
afterNetfilter(pr, v) ==
    IF v.allowed
    THEN [pr EXCEPT !.pc = "cacheIP", !.ip = pr.host[1], !.checked = pr.host[1]]
    ELSE [pr EXCEPT !.pc = "done", !.checked = pr.host[1], !.err = "ssrf blocked", !.errAddr = v.address, !.onBlocked = v.onBlocked]

\* DialContext from getCached to the branch it takes: the pinned IP, the IP
\* literal, or the lookup
afterGetCached(pr, e, now, allowPrivate, onBlockedSet) ==
    IF e.present
    THEN [pr EXCEPT !.pc = "dialIP", !.start = now, !.ip = e.ip, !.pinTime = e.timestamp]
    ELSE IF IsIPLiteral(pr.host)
    THEN afterNetfilter([pr EXCEPT !.start = now], validateWithNetfilter(pr.host, pr.port, allowPrivate, onBlockedSet))
    ELSE [pr EXCEPT !.pc = "lookup", !.start = now]

SdGetCached(p) ==
    /\ p \in sdActive
    /\ sdProc[p].pc = "getCached"
    /\ sdProc' = [sdProc EXCEPT ![p] = afterGetCached(sdProc[p], getCached(sdCache, sdProc[p].host, sdClock, sdTTL), sdClock, sdAllow, sdOnBlocked)]
    /\ UNCHANGED <<sdCache, sdClock, sdPrev, SdOther>>

\* DialContext after validateResolvedIP on the selected IP
afterResolved(pr, ip, v) ==
    IF v.allowed
    THEN [pr EXCEPT !.pc = "cacheIP", !.ip = ip, !.checked = ip, !.lookups = pr.lookups + 1]
    ELSE [pr EXCEPT !.pc = "done", !.checked = ip, !.lookups = pr.lookups + 1, !.err = "ssrf blocked", !.errAddr = v.address, !.onBlocked = v.onBlocked]

\* DialContext from LookupIPAddr to validateResolvedIP; ans is the address
\* the resolver answers with, "" if it fails or answers with none
afterLookup(pr, ans, allowPrivate, onBlockedSet) ==
    IF ans = ""
    THEN [pr EXCEPT !.pc = "done", !.lookups = pr.lookups + 1, !.err = "DNS lookup failed"]
    ELSE afterResolved(pr, ans, validateResolvedIP(ans, allowPrivate, onBlockedSet))

SdLookup(p) ==
    /\ p \in sdActive
    /\ sdProc[p].pc = "lookup"
    /\ \E ans \in IPs \cup {""} : sdProc' = [sdProc EXCEPT ![p] = afterLookup(sdProc[p], ans, sdAllow, sdOnBlocked)]
    /\ UNCHANGED <<sdCache, sdClock, sdPrev, SdOther>>

SdCacheIP(p) ==
    /\ p \in sdActive
    /\ sdProc[p].pc = "cacheIP"
    /\ sdCache' = cacheIP(sdCache, sdProc[p].host, sdProc[p].ip, sdClock)
    /\ sdProc' = [sdProc EXCEPT ![p].pc = "dialIP", ![p].pinned = TRUE, ![p].pinTime = sdClock]
    /\ UNCHANGED <<sdClock, sdPrev, SdOther>>

\* SecureDialer.dialIP: the connection to the IP opens, is refused or times out
dialIP(pr, outcome) ==
    [pr EXCEPT !.pc = "done", !.opened = pr.ip, !.connected = (outcome = "connected"), !.err = IF outcome = "connected" THEN "" ELSE outcome]

SdDialIP(p) ==
    /\ p \in sdActive
    /\ sdProc[p].pc = "dialIP"
    /\ \E outcome \in DialOutcomes : sdProc' = [sdProc EXCEPT ![p] = dialIP(sdProc[p], outcome)]
    /\ UNCHANGED <<sdCache, sdClock, sdPrev, SdOther>>

SdReturn(p) ==
    /\ p \in sdActive
    /\ sdProc[p].pc = "done"
    /\ sdPrev' = [sdPrev EXCEPT ![p] = [done |-> TRUE, host |-> sdProc[p].host, connected |-> sdProc[p].connected, ip |-> sdProc[p].opened, pinTime |-> sdProc[p].pinTime]]
    /\ sdProc' = [sdProc EXCEPT ![p] = [SdBlankProc EXCEPT !.dials = sdProc[p].dials]]
    /\ UNCHANGED <<sdCache, sdClock, SdOther>>

\* time passes
SdTick ==
    /\ sdClock < MaxClock
    /\ sdClock' = sdClock + 1
    /\ UNCHANGED <<sdCache, sdProc, sdPrev, SdOther>>

SdNext ==
    \/ \E p \in SdProcs : SdDialBegin(p)
    \/ \E p \in SdProcs : SdGetCached(p)
    \/ \E p \in SdProcs : SdLookup(p)
    \/ \E p \in SdProcs : SdCacheIP(p)
    \/ \E p \in SdProcs : SdDialIP(p)
    \/ \E p \in SdProcs : SdReturn(p)
    \/ SdTick

SpecDial == SdInit /\ [][SdNext]_vars

SpecDialConc == SdConcInit /\ [][SdNext]_vars

\* the dial of goroutine p has ended after validating an IP the policy rejects
SdRejected(p) ==
    /\ sdProc[p].pc = "done"
    /\ sdProc[p].checked # ""
    /\ ~ValidateAddress(sdProc[p].checked, sdAllow)

SdDialedTwice(p) ==
    /\ sdPrev[p].done
    /\ sdPrev[p].connected
    /\ sdProc[p].pc = "done"
    /\ sdProc[p].connected
    /\ sdProc[p].host = sdPrev[p].host
    /\ ~IsIPLiteral(sdProc[p].host)
    /\ sdProc[p].start - sdPrev[p].pinTime < sdTTL

\* C22: a host name dialed twice through one SecureDialer within the cache
\* TTL is connected to at the same IP both times, and the second dial makes
\* no DNS lookup
C22_SameIPWithinTTL ==
    \A p \in SdProcs : SdDialedTwice(p) =>
        /\ sdProc[p].opened = sdPrev[p].ip
        /\ sdProc[p].lookups = 0

\* goroutines p and q have both resolved one host name that had no pin when
\* either of them looked, and both have opened a connection
SdResolvedTogether(p, q) ==
    /\ p # q
    /\ sdProc[p].pc = "done" /\ sdProc[q].pc = "done"
    /\ sdProc[p].host = sdProc[q].host
    /\ sdProc[p].lookups = 1 /\ sdProc[q].lookups = 1
    /\ sdProc[p].opened # "" /\ sdProc[q].opened # ""
    /\ sdProc[p].start <= sdProc[q].pinTime
    /\ sdProc[q].start <= sdProc[p].pinTime

\* C23: concurrent dials to one uncached host name all connect to the one
\* IP that is pinned for it, whatever their lookups answered
C23_FirstResolverWins ==
    \A p, q \in SdProcs : SdResolvedTogether(p, q) =>
        /\ sdProc[p].opened = sdProc[q].opened
        /\ sdCache[sdProc[p].host].ip = sdProc[p].opened

(***************************************************************************)
(* PerformHTTPRequest with SSRF protection, call after call                *)
(***************************************************************************)
HtInit ==
    /\ HtAtRest
    /\ OldIdle
    /\ SdAtRest
    /\ RtAtRest
    /\ LrAtRest
    /\ ChAtRest
    /\ PrAtRest

HtOther == <<oldVars, sdVars, rtVars, lrVars, chVars, prVars>>

\* one PerformHTTPRequest call with WithHTTPSSRFProtection; the calls of one
\* behaviour follow each other within the TTL of a pin
HtRequest ==
    /\ htCalls < MaxRequests
    /\ \E rawURL \in URLs, net \in Networks, allowPrivate \in BOOLEAN :
         htOut' = executeHTTPRequest(HtCtx(allowPrivate), rawURL, net, createHTTPClient(TRUE, allowPrivate), PerformHTTPRequest(HtCtx(allowPrivate), rawURL, net))
    /\ htPrev' = htOut
    /\ htCalls' = htCalls + 1
    /\ UNCHANGED HtOther

HtNext == HtRequest

SpecHttp == HtInit /\ [][HtNext]_vars

\* C24: with SSRF protection enabled, two successive PerformHTTPRequest
\* calls to one host name that both connect use the same IP, and the second
\* resolves no DNS
C24_PinnedAcrossRequests ==
    (/\ htPrev.connected /\ htOut.connected
     /\ htOut.host = htPrev.host
     /\ ~IsIPLiteral(htOut.host)) =>
        /\ htOut.ip = htPrev.ip
        /\ htOut.lookups = 0

(***************************************************************************)
(* RetryTransport.RoundTrip, attempt by attempt                            *)
(***************************************************************************)
RtInit ==
    /\ rtCfg \in RtConfigs
    /\ rtSt = RtBlank
    /\ OldIdle
    /\ SdAtRest
    /\ HtAtRest
    /\ LrAtRest
    /\ ChAtRest
    /\ PrAtRest

RtOther == <<rtCfg, oldVars, sdVars, htVars, lrVars, chVars, prVars>>

\* RoundTrip is called: the defaults are in place, the loop starts
RtBegin ==
    /\ rtSt.pc = "idle"
    /\ rtSt' = [RtBlank EXCEPT !.pc = "loop"]
    /\ UNCHANGED RtOther

\* the end of an iteration that calls OnRetry with the loop variable as it is
retry_ZeroBased(st, cfg, resp) ==
    [st EXCEPT !.attempt = st.attempt + 1,
               !.slept = TRUE,
               !.wait = calculateBackoff(st.attempt, initialBackoffOf(cfg), maxBackoffOf(cfg), resp),
               !.waitFor = resp,
               !.onRetry = IF cfg.OnRetry THEN Append(st.onRetry, st.attempt) ELSE st.onRetry]

\* the end of an iteration that retries: calculateBackoff, OnRetry, Sleep
retry(st, cfg, resp) ==
    [st EXCEPT !.attempt = st.attempt + 1,
               !.slept = TRUE,
               !.wait = calculateBackoff(st.attempt, initialBackoffOf(cfg), maxBackoffOf(cfg), resp),
               !.waitFor = resp,
               !.onRetry = IF cfg.OnRetry THEN Append(st.onRetry, st.attempt + 1) ELSE st.onRetry]

\* the iteration after base.RoundTrip returned an error
afterError(st, cfg, out) ==
    IF out.ssrf THEN [st EXCEPT !.pc = "done", !.lastErr = out, !.result = out]
    ELSE IF st.attempt < maxRetriesOf(cfg) THEN retry([st EXCEPT !.lastErr = out], cfg, NoOutcome)
    ELSE [st EXCEPT !.pc = "done", !.lastErr = out, !.result = out]

\* the iteration retrying after every response that is not a success
afterResponse_RetriesAll(st, cfg, out) ==
    IF out.status < 400 THEN [st EXCEPT !.pc = "done", !.result = out]
    ELSE IF st.attempt < maxRetriesOf(cfg) THEN retry([st EXCEPT !.lastResp = out, !.lastErr = NoOutcome], cfg, out)
    ELSE [st EXCEPT !.lastResp = out, !.lastErr = NoOutcome, !.attempt = st.attempt + 1]

\* the iteration after base.RoundTrip returned a response
afterResponse(st, cfg, out) ==
    IF ~isRetryableStatus(out.status) THEN [st EXCEPT !.pc = "done", !.result = out]
    ELSE IF out.status >= 400 /\ out.status < 500 /\ out.status # 429 THEN [st EXCEPT !.pc = "done", !.result = out]
    ELSE IF st.attempt < maxRetriesOf(cfg) THEN retry([st EXCEPT !.lastResp = out, !.lastErr = NoOutcome], cfg, out)
    ELSE [st EXCEPT !.lastResp = out, !.lastErr = NoOutcome, !.attempt = st.attempt + 1]

\* an outcome after which the claims allow a further attempt: a transport
\* error that is not SSRF-blocked, or a response with one of four statuses
Retryable(out) ==
    \/ out.kind = "err" /\ ~out.ssrf
    \/ out.kind = "resp" /\ out.status \in {429, 502, 503, 504}

\* the base transport is called and has yielded out
called(st, out) ==
    [st EXCEPT !.calls = st.calls + 1, !.last = out,
               !.retried = IF Retryable(out) THEN st.retried + 1 ELSE st.retried]

\* one iteration of the loop of RoundTrip
iteration(st, cfg, out) ==
    IF out.kind = "getbody" THEN [st EXCEPT !.pc = "done", !.result = out]
    ELSE IF out.kind = "err" THEN afterError(called(st, out), cfg, out)
    ELSE afterResponse(called(st, out), cfg, out)

RtAttempt ==
    /\ rtSt.pc = "loop"
    /\ rtSt.attempt <= maxRetriesOf(rtCfg)
    /\ \E out \in Outcomes : rtSt' = iteration(rtSt, rtCfg, out)
    /\ UNCHANGED RtOther

\* the loop has run out: lastResp if there is one, lastErr otherwise
RtExit ==
    /\ rtSt.pc = "loop"
    /\ rtSt.attempt > maxRetriesOf(rtCfg)
    /\ rtSt' = [rtSt EXCEPT !.pc = "done", !.result = IF rtSt.lastResp # NoOutcome THEN rtSt.lastResp ELSE rtSt.lastErr]
    /\ UNCHANGED RtOther

RtNext == RtBegin \/ RtAttempt \/ RtExit

SpecRetry == RtInit /\ [][RtNext]_vars

\* C25, as stated: one RoundTrip call makes at most MaxRetries + 1 calls on
\* the base transport, MaxRetries being the configured value
C25_AttemptsAsStated == rtSt.calls <= rtCfg.MaxRetries + 1

\* the number the attempts are capped by: the configured MaxRetries, 3 in
\* place of zero
RtCap == IF rtCfg.MaxRetries = 0 THEN 3 ELSE rtCfg.MaxRetries

\* C25, amended: one RoundTrip call makes at most N + 1 calls on the base
\* transport, where N is the configured MaxRetries, or 3 if that is zero; it
\* makes none if MaxRetries is negative
C25_Attempts ==
    IF rtCfg.MaxRetries < 0 THEN rtSt.calls = 0 ELSE rtSt.calls <= RtCap + 1

\* with MaxRetries left at zero the base transport has been called four times
C25_Witness ==
    /\ rtCfg.MaxRetries = 0
    /\ rtSt.pc = "done"
    /\ rtSt.calls = 4

\* C26: a further call on the base transport follows only a retryable
\* outcome, and an outcome that is not retryable is returned by the very
\* iteration that received it
C26_RetryOnlyRetryable ==
    [][rtSt'.calls > rtSt.calls =>
         /\ rtSt.calls > 0 => Retryable(rtSt.last)
         /\ ~Retryable(rtSt'.last) => rtSt'.pc = "done" /\ rtSt'.result = rtSt'.last]_vars

\* a 500 has been returned after a retry that followed a 503
C26_Witness ==
    /\ rtSt.pc = "done"
    /\ rtSt.calls = 2
    /\ rtSt.last.status = 500
    /\ rtSt.result = rtSt.last

\* the call ended on a response that is not retryable, after k = retried
\* retryable outcomes, k at most the configured MaxRetries
RtEndedOnResponse ==
    /\ rtSt.pc = "done"
    /\ rtSt.last.kind = "resp"
    /\ ~Retryable(rtSt.last)
    /\ rtSt.retried <= rtCfg.MaxRetries

\* C27: after k retryable outcomes and then a response that is not
\* retryable, k <= MaxRetries, the caller has that response after k + 1
\* calls on the base transport and OnRetry, if set, was called k times, with
\* the attempt numbers 1, 2, ..., k
C27_ExactlyKPlusOne ==
    RtEndedOnResponse =>
        /\ rtSt.result = rtSt.last
        /\ rtSt.calls = rtSt.retried + 1
        /\ rtCfg.OnRetry => rtSt.onRetry = [i \in 1..rtSt.retried |-> i]

\* 503 then 200 with MaxRetries = 3: two calls, OnRetry once with attempt 1
C27_Witness ==
    /\ RtEndedOnResponse
    /\ rtCfg.MaxRetries = 3
    /\ rtCfg.OnRetry
    /\ rtSt.calls = 2
    /\ rtSt.last.status = 200
    /\ rtSt.onRetry = <<1>>

\* the wait the claim gives for the k-th retry: the Retry-After time if the
\* response has one, InitialBackoff * 2^(k-1) otherwise, capped at MaxBackoff
RtExpectedWait(k, resp) ==
    IF resp.retryAfter.kind = "none"
    THEN Min(initialBackoffOf(rtCfg) * 2^(k - 1), maxBackoffOf(rtCfg))
    ELSE Min(resp.retryAfter.value, maxBackoffOf(rtCfg))

\* C28: every wait before a retry lies between zero and MaxBackoff and is
\* the capped exponential backoff, or the capped Retry-After time
C28_WaitWithinBackoff ==
    rtSt.slept =>
        /\ 0 <= rtSt.wait
        /\ rtSt.wait <= maxBackoffOf(rtCfg)
        /\ rtSt.wait = RtExpectedWait(rtSt.attempt, rtSt.waitFor)

(***************************************************************************)
(* readHTTPResponse: io.ReadAll through a LimitedReader, Read by Read      *)
(***************************************************************************)
LrInit ==
    /\ lrSrc \in LrSources
    /\ lrRd = NewLimitedReader(0)
    /\ lrOut = LrBlankOut
    /\ OldIdle
    /\ SdAtRest
    /\ HtAtRest
    /\ RtAtRest
    /\ ChAtRest
    /\ PrAtRest

LrOther == <<lrSrc, oldVars, sdVars, htVars, rtVars, chVars, prVars>>

\* NewLimitedReader(resp.Body, maxBodySize)
LrNew ==
    /\ lrOut.pc = "idle"
    /\ \E limit \in 0..MaxLimit : lrRd' = NewLimitedReader(limit)
    /\ lrOut' = [lrOut EXCEPT !.pc = "reading"]
    /\ UNCHANGED LrOther

\* io.ReadAll after one Read returned: the bytes are kept, an error ends
\* the loop, io.EOF as no error
readAll(out, res) ==
    [out EXCEPT !.reads = out.reads + 1,
                !.body = out.body + res.n,
                !.pc = IF res.err = "" THEN "reading" ELSE "done",
                !.err = IF res.err = "EOF" THEN "" ELSE res.err,
                !.firstErr = IF out.reads = 0 THEN res.err ELSE out.firstErr]

\* one Read of io.ReadAll on the LimitedReader with a buffer of want bytes
LrRead ==
    /\ lrOut.pc = "reading"
    /\ \E want \in 1..MaxBuf :
         \E r1 \in SrcReads(lrSrc, lrSrc.len - lrRd.taken, Min(want, lrRd.N)) :
           \E r2 \in SrcReads(lrSrc, lrSrc.len - lrRd.taken - r1.n, 1) :
             /\ lrRd' = Read(lrRd, r1, r2).rd
             /\ lrOut' = readAll(lrOut, Read(lrRd, r1, r2))
    /\ UNCHANGED LrOther

\* readHTTPResponse builds the response from what io.ReadAll returned
LrRespond ==
    /\ lrOut.pc = "done"
    /\ lrOut' = [lrOut EXCEPT !.pc = "returned", !.resp = readHTTPResponse(lrSrc.status, lrOut.body, lrOut.err)]
    /\ UNCHANGED <<lrRd, LrOther>>

LrNext == LrNew \/ LrRead \/ LrRespond

SpecRead == LrInit /\ [][LrNext]_vars

\* the stream has been read to its end, or to the error that ended the
\* reading, and did not fail itself
LrReadToEnd ==
    /\ lrOut.pc \in {"done", "returned"}
    /\ lrOut.err \in {"", SizeLimitExceeded}

\* C29: reading a stream to its end through a LimitedReader ends with
\* SizeLimitExceededError if the stream holds limit bytes or more, without
\* error if it holds fewer; with limit 0 the first Read fails without
\* reading from the stream
C29_LimitEnforced ==
    LrReadToEnd =>
        /\ lrSrc.len >= lrRd.Limit => lrOut.err = SizeLimitExceeded
        /\ lrSrc.len < lrRd.Limit => lrOut.err = ""
        /\ lrRd.Limit = 0 => lrOut.firstErr = SizeLimitExceeded /\ lrRd.srcReads = 0

\* C30: the Body of the response holds at most maxBodySize bytes, and
\* BodyTruncated is true exactly when the response body is longer than
\* maxBodySize, the response then carrying the status code and no Error
C30_TruncatedIffLonger ==
    (lrOut.pc = "returned" /\ lrRd.Limit > 0 /\ lrOut.err \in {"", SizeLimitExceeded}) =>
        /\ lrOut.resp.Body <= lrRd.Limit
        /\ lrOut.resp.BodyTruncated <=> lrSrc.len > lrRd.Limit
        /\ lrOut.resp.BodyTruncated => lrOut.resp.StatusCode = lrSrc.status /\ lrOut.resp.Error = ""

(***************************************************************************)
(* The mandatory middleware chain around a host function                   *)
(***************************************************************************)
\* the handler of the host function: it hands back a payload, or an error, or
\* it panics
innerHandler(c) ==
    IF c.panicAt = "handler" THEN Panicked
    ELSE IF c.handlerErr THEN Returned("", "handler error")
    ELSE Returned("response", "")

\* CapabilityMiddleware(checker)(next): a denial is a validation error payload
\* with a nil error, anything else is what next hands back
capabilityLayer(g, c) ==
    IF c.panicAt = "capability" THEN Panicked
    ELSE IF CapabilityMiddleware(g, c.in).callNext THEN innerHandler(c)
    ELSE Returned("validation_error", "")

\* UserAgentMiddleware(next): rewrites the headers of an http_request payload
\* and returns next(ctx, payload)
UserAgentMiddleware(c, next) ==
    IF c.panicAt = "useragent" THEN Panicked ELSE next

\* LoggingMiddleware(logFn)(next): logs, calls next, logs, and returns resp and
\* err as next gave them
LoggingMiddleware(c, next) ==
    IF c.panicAt = "logging" THEN Panicked ELSE next

\* PanicRecoveryMiddleware(next): a recovered panic becomes a panic error
\* payload with a nil error; a return of next passes through
PanicRecoveryMiddleware(next) ==
    IF next.panicked THEN Returned("panic_error", "") ELSE next

\* the chain the registry builds: panic recovery outermost, then logging,
\* User-Agent injection, capability enforcement, and the handler innermost
chain(g, c) ==
    PanicRecoveryMiddleware(
        LoggingMiddleware(c, UserAgentMiddleware(c, capabilityLayer(g, c))))

\* extractHostFromURL: what follows "://" up to the first "/" or ":"
extractHostFromURL(url) ==
    IF ~Contains(url, "://") THEN <<>>
    ELSE LET remaining == Suffix(url, IndexOf(url, "://"))
         IN  SubSeq(remaining, 1, Min(IndexOf(remaining, "/"), IndexOf(remaining, ":")) - 1)

\* NetworkExtractor.extractFromURL, extractFromHostTarget, extractFromNameserver:
\* the hosts
extractHosts(config) ==
    (IF extractHostFromURL(config.url) # <<>> THEN <<extractHostFromURL(config.url)>> ELSE <<>>)
        \o (IF config.host # <<>> THEN <<config.host>> ELSE <<>>)
        \o (IF config.target # <<>> THEN <<config.target>> ELSE <<>>)
        \o (IF config.nameserver # <<>> THEN <<config.nameserver>> ELSE <<>>)

\* the ports: of the scheme of the url, 53 for a nameserver, then extractPort
extractPorts(config) ==
    (IF extractHostFromURL(config.url) = <<>> THEN <<>>
     ELSE IF HasPrefix(config.url, <<"https", "://">>) THEN <<"443">>
     ELSE IF HasPrefix(config.url, <<"http", "://">>) THEN <<"80">>
     ELSE <<>>)
        \o (IF config.nameserver # <<>> THEN <<"53">> ELSE <<>>)
        \o (IF config.port # "" THEN <<config.port>> ELSE <<>>)

\* a port string of a rule as the policy reads it
portPattern(p) == IF p = "*" THEN PortAny ELSE PortNum(Atoi(p))

\* NetworkExtractor.Extract: nil is the empty grant set
Extract(config) ==
    LET hosts == extractHosts(config)
        ports == extractPorts(config)
    IN  IF hosts = <<>> /\ ports = <<>> THEN EmptyGrants
        ELSE [EmptyGrants EXCEPT
                !.net = <<NetRule(IF hosts = <<>> THEN <<Star>> ELSE hosts,
                                  IF ports = <<>> THEN <<PortAny>>
                                  ELSE [i \in 1..Len(ports) |-> portPattern(ports[i])])>>]

\* configurations of the http, tcp and dns plugins
Configs ==
    { [NoConfig EXCEPT !.kind = "http", !.url = u] :
        u \in {HTTPExample, HTTPSExample, HTTPPrivateTimeout} }
    \cup { [NoConfig EXCEPT !.kind = "tcp", !.host = h, !.port = pt] :
        h \in {ExampleCom, <<IPLoopback>>}, pt \in {"80", "8080"} }
    \cup { [NoConfig EXCEPT !.kind = "dns", !.hostname = ExampleCom, !.nameserver = ns] :
        ns \in {<<>>, <<IPPublic>>, ExampleCom} }

\* the host call the plugin makes with the values of its configuration
hostCall(config) ==
    LET in == [BlankIn EXCEPT !.hasName = TRUE, !.isHostContext = TRUE, !.parsed = TRUE]
    IN  CASE config.kind = "http" -> [in EXCEPT !.fn = "http_request", !.url = config.url]
          [] config.kind = "tcp" -> [in EXCEPT !.fn = "tcp_connect", !.host = config.host,
                                               !.port = config.port]
          [] config.kind = "dns" -> [in EXCEPT !.fn = "dns_lookup", !.host = config.hostname]
          [] OTHER -> in

ChCalls ==
    [in : MwInputs \cup { hostCall(c) : c \in Configs },
     panicAt : ChLayers, handlerErr : BOOLEAN]

ChInit ==
    /\ \/ chConfig = NoConfig /\ chGrants \in MwGrantChoices
       \/ /\ chConfig \in Configs
          /\ chGrants = [present |-> TRUE, grants |-> Extract(chConfig)]
    /\ chCall = ChBlankCall
    /\ chOut = ChBlankOut
    /\ OldIdle
    /\ SdAtRest
    /\ HtAtRest
    /\ RtAtRest
    /\ LrAtRest
    /\ PrAtRest

ChOther == <<chGrants, chConfig, oldVars, sdVars, htVars, rtVars, lrVars, prVars>>

\* one host call through the whole chain
ChInvoke ==
    /\ chOut.pc = "idle"
    /\ \E c \in ChCalls :
         /\ chCall' = c
         /\ chOut' = chain(chGrants, c)
    /\ UNCHANGED ChOther

\* the caller takes the result; the next host call may start
ChDone ==
    /\ chOut.pc = "done"
    /\ chCall' = ChBlankCall
    /\ chOut' = ChBlankOut
    /\ UNCHANGED ChOther

ChNext == ChInvoke \/ ChDone

SpecChain == ChInit /\ [][ChNext]_vars

\* C31: every call through the mandatory middleware chain hands its caller a
\* structured payload and a nil error, never a returned error or a panic:
\* this covers a capability denial, a panic in any inner layer, and an error
\* returned by the inner handler.
C31_AlwaysPayload ==
    chOut.pc = "done" =>
        /\ ~chOut.panicked
        /\ chOut.err = ""
        /\ chOut.resp # ""

(***************************************************************************)
(* PluginReference: String and ParsePluginReference                        *)
(***************************************************************************)
\* components NewPluginReference is given: it validates none of them
PrRegistries == { <<>>, <<"reg.io">>, <<"localhost", ":", "5000">> }

PrOrgs == { <<>>, <<"org">> }

PrRepos == { <<"repo">>, <<"repo", Sep, "sub">> }

PrNames == { <<"file">>, <<"file", Sep, "x">> }

PrVersions == { <<>>, <<"1.0.0">> }

\* reference strings handed to ParsePluginReference
PrTexts ==
    { <<"file">>,
      <<"reg.io", Sep, "org", Sep, "repo", Sep, "file", ":", "1.0.0">>,
      <<"reg.io", Sep, "org", Sep, "repo", Sep, "sub", Sep, "file", ":", "1.0.0">>,
      <<Sep, "org", Sep, "repo", Sep, "file", ":", "1.0.0">>,
      <<"file", ":", "1.0.0">>,
      <<"reg.io", Sep, "org", Sep, "repo", Sep, "file">> }

\* the references a program can hold: built by NewPluginReference, or
\* returned by a ParsePluginReference that succeeded
PrRefs ==
    { Ref(g, o, rp, n, v) : g \in PrRegistries, o \in PrOrgs, rp \in PrRepos,
                            n \in PrNames, v \in PrVersions }
    \cup { ParsePluginReference(t).ref : t \in { u \in PrTexts : ParsePluginReference(u).err = "" } }

PrInit ==
    /\ prRef \in PrRefs
    /\ prOut = PrBlankOut
    /\ OldIdle
    /\ SdAtRest
    /\ HtAtRest
    /\ RtAtRest
    /\ LrAtRest
    /\ ChAtRest

PrOther == <<oldVars, sdVars, htVars, rtVars, lrVars, chVars>>

\* r.String()
PrString ==
    /\ prOut.pc = "idle"
    /\ prOut' = [prOut EXCEPT !.pc = "text", !.text = String(prRef)]
    /\ UNCHANGED <<prRef, PrOther>>

\* ParsePluginReference(r.String())
PrParse ==
    /\ prOut.pc = "text"
    /\ prOut' = [prOut EXCEPT !.pc = "parsed", !.parsed = ParsePluginReference(prOut.text)]
    /\ UNCHANGED <<prRef, PrOther>>

\* the program goes on with the reference it got back, when it got one
PrAgain ==
    /\ prOut.pc = "parsed"
    /\ prRef' = IF prOut.parsed.err = "" THEN prOut.parsed.ref ELSE prRef
    /\ prOut' = PrBlankOut
    /\ UNCHANGED PrOther

PrNext == PrString \/ PrParse \/ PrAgain

SpecRef == PrInit /\ [][PrNext]_vars

\* C32: for every PluginReference r, embedded or full,
\* ParsePluginReference(r.String()) succeeds and returns a reference equal to
\* r in registry, org, repo, name and version.
C32_RoundTrip ==
    prOut.pc = "parsed" =>
        /\ prOut.parsed.err = ""
        /\ prOut.parsed.ref = prRef

(***************************************************************************)
(* Gatekeeper: what the returned and the stored grants hold                *)
(***************************************************************************)
\* C33: whenever GrantCapabilities returns without error, the returned grant
\* set allows every rule of the required set, in every capability class that
\* required holds.
C33_ReturnCoversRequired ==
    (GateDone /\ gkOut.hasRet) => CoveredBy(gkOut.required, gkOut.ret)

C33_Witness ==
    /\ GateDone /\ gkOut.hasRet /\ ~gkOut.trustAll
    /\ Len(gkOut.prompts) = 2
    /\ PromptAnswers = {"once", "always"}
    /\ ~IsEmpty(gkOut.before)
    /\ ~CoveredBy(gkOut.required, gkOut.before)

\* the grants of the requests the prompter answered grant-always
RECURSIVE GrantedAlways(_)
GrantedAlways(prompts) ==
    IF prompts = <<>> THEN EmptyGrants
    ELSE LET rest == GrantedAlways(Tail(prompts))
         IN  IF Head(prompts).answer = "always"
             THEN Merge(ToMerge(Head(prompts).req), rest)
             ELSE rest

\* C34: a rule answered grant-once is never written to the grant store: after
\* any GrantCapabilities call the stored set holds only rules that were stored
\* before the call and rules answered grant-always during it.
C34_OnceNeverStored ==
    GateDone => CoveredBy(store, Merge(gkOut.before, GrantedAlways(gkOut.prompts)))

\* C35 as stated: the grant set GrantCapabilities returns allows nothing beyond
\* what the required set asks for.
C35_NothingBeyondRequired ==
    (GateDone /\ gkOut.hasRet) => CoveredBy(gkOut.ret, gkOut.required)

\* C35: the grant set GrantCapabilities returns allows nothing beyond what the
\* required set asks for and what the grant store held before the call.
C35_NothingBeyondRequiredAndStored ==
    (GateDone /\ gkOut.hasRet) =>
        CoveredBy(gkOut.ret, Merge(gkOut.required, gkOut.before))

C35_Witness ==
    /\ GateDone /\ gkOut.hasRet /\ ~gkOut.trustAll
    /\ gkOut.prompts # <<>>
    /\ ~CoveredBy(gkOut.before, gkOut.required)
    /\ ~CoveredBy(gkOut.ret, gkOut.required)
    /\ ~CoveredBy(gkOut.ret, gkOut.before)

(***************************************************************************)
(* Plugin service: the binary behind the recorded digest                   *)
(***************************************************************************)
\* C36: for every plugin held in the repository the recorded digest equals the
\* SHA-256 of the stored binary, so the binary at the path LoadPlugin returns
\* for an expected digest D has content hash D, also when the plugin was just
\* pulled from the registry.
C36_DigestIsContentHash ==
    /\ svcRepo # NoDigest => svcWasm = svcRepo
    /\ (svcPc = "done" /\ svcOut.path # <<>> /\ svcOut.expected.value # <<>>)
           => svcWasm = svcOut.expected

\* C37: a plugin that failed digest or signature verification in LoadPlugin is
\* not left usable in the repository: the next LoadPlugin of the same
\* reference, with or without an expected digest, does not return the path of
\* the rejected artifact from the cache.
C37_RejectedNotServed ==
    (svcPc = "done" /\ svcRejected # NoEntity /\ svcOut.ref = svcRejected.ref)
        => ~(/\ svcOut.path # <<>>
             /\ svcOut.consulted = <<"cached">>
             /\ svcOut.resolved.digest = svcRejected.digest)

(***************************************************************************)
(* Plugin repository: what Delete leaves alone                             *)
(***************************************************************************)
\* C39: Delete(R) removes only R: for every other reference R' stored in the
\* repository, Find(R') returns the same plugin and path after Delete(R) as
\* before it, and List still contains R'.
C39_DeleteRemovesOnlyR ==
    (RepoDone /\ repoOut.op = "delete") =>
        \A r \in Refs \ {repoOut.plugin.ref} :
            LET was == Find(repoRoot, repoOut.before, r)
                is == Find(repoRoot, repoFs, r)
            IN  was.err = "" =>
                    /\ is.err = ""
                    /\ is.found = was.found
                    /\ is.path = was.path
                    /\ r \in List(repoRoot, repoOut.before) => r \in List(repoRoot, repoFs)

(***************************************************************************)
(* http_request: the connections behind one capability check               *)
(***************************************************************************)
\* C38: every host and port an http_request connects to on behalf of a
\* plugin, the targets of the redirects the client follows included, has been
\* allowed by a capability check against that plugin's grants.
C38_EveryConnectChecked ==
    (MwDone /\ mwIn.fn = "http_request" /\ mwIn.hasName) =>
        \A i \in 1..Len(mwOut.connects) :
            /\ mwOut.check.checked
            /\ CheckNetwork(mwGrants, mwOut.connects[i].host, mwOut.connects[i].port)

(***************************************************************************)
(* Extracted grants against the checks of the middleware                   *)
(***************************************************************************)
\* C40: for the http, tcp and dns plugin kinds, the grant set NetworkExtractor
\* derives from a plugin configuration allows the network request that
\* CapabilityMiddleware checks when the plugin makes the corresponding host
\* call with the same configuration values.
C40_ExtractedGrantsAllowCall ==
    (/\ chOut.pc = "done"
     /\ chConfig # NoConfig
     /\ chCall.in = hostCall(chConfig)
     /\ chCall.panicAt = "none") =>
        /\ chOut.resp # "validation_error"
        /\ capabilityCheck(chGrants, chCall.in).allowed

====
